---------------------------- MODULE Spec2Model ----------------------------
(***************************************************************************)
(* A model of the retrieval stage of the DecisionMaker pipeline            *)
(* (src/Retriever.py): text normalisation, segmentation, keyword           *)
(* extraction, scoring, citation lookup and the retrieve() orchestrator;   *)
(* and of the routing stage (src/Router.py): the language-model call, the  *)
(* parsing of its reply and what route() returns; and of the planning      *)
(* stage (src/Planner.py): normalize_category and build_plan.              *)
(*                                                                         *)
(* A Python str is modelled as a sequence of Unicode code points, so the   *)
(* character classes of the source's regular expressions are sets of       *)
(* numbers (U+0591 is 1425, "\n" is 10, " " is 32, ...).  Python's None is *)
(* the value None below, which is no string.                               *)
(***************************************************************************)
EXTENDS Integers, Sequences, FiniteSets, TLC

(***************************************************************************)
(* Character classes                                                       *)
(***************************************************************************)

\* str.isspace(), which is also the class \s of the re module on str
\* patterns.
WhitespaceChars ==
    (9..13) \cup (28..32) \cup {133, 160, 5760} \cup (8192..8202)
    \cup {8232, 8233, 8239, 8287, 12288}

IsSpace(c) == c \in WhitespaceChars

\* _NIQQUD_RE: [\u0591-\u05C7]
IsNiqqud(c) == c \in 1425..1479

\* The blanks that normalize_hebrew collapses: [ \t]
IsBlank(c) == c \in {32, 9}

\* The class \d of the re module on str patterns: the decimal digits (general
\* category Nd) of Unicode 15.1.  They come in runs of ten, zero to nine;
\* DigitZeros holds the zero of each run.
DigitZeros ==
    {48, 1632, 1776, 1984, 2406, 2534, 2662, 2790, 2918, 3046, 3174, 3302,
     3430, 3558, 3664, 3792, 3872, 4160, 4240, 6112, 6160, 6470, 6608, 6784,
     6800, 6992, 7088, 7232, 7248, 42528, 43216, 43264, 43472, 43504, 43600,
     44016, 65296, 66720, 68912, 69734, 69872, 69942, 70096, 70384, 70736,
     70864, 71248, 71360, 71472, 71904, 72016, 72784, 73040, 73120, 73552,
     92768, 92864, 93008, 120782, 120792, 120802, 120812, 120822, 123200,
     123632, 124144, 125264, 130032}

DigitChars == UNION {z..(z + 9) : z \in DigitZeros}

\* The class \w of the re module on str patterns: str.isalnum() or "_", the
\* letters and numbers (general categories L* and N*) of Unicode 15.1 and
\* the underscore.  WordRanges holds the first and the last code point of
\* each run.
WordRanges ==
    {<<48, 57>>, <<65, 90>>, <<95, 95>>, <<97, 122>>, <<170, 170>>,
     <<178, 179>>, <<181, 181>>, <<185, 186>>, <<188, 190>>, <<192, 214>>,
     <<216, 246>>, <<248, 705>>, <<710, 721>>, <<736, 740>>, <<748, 748>>,
     <<750, 750>>, <<880, 884>>, <<886, 887>>, <<890, 893>>, <<895, 895>>,
     <<902, 902>>, <<904, 906>>, <<908, 908>>, <<910, 929>>, <<931, 1013>>,
     <<1015, 1153>>, <<1162, 1327>>, <<1329, 1366>>, <<1369, 1369>>,
     <<1376, 1416>>, <<1488, 1514>>, <<1519, 1522>>, <<1568, 1610>>,
     <<1632, 1641>>, <<1646, 1647>>, <<1649, 1747>>, <<1749, 1749>>,
     <<1765, 1766>>, <<1774, 1788>>, <<1791, 1791>>, <<1808, 1808>>,
     <<1810, 1839>>, <<1869, 1957>>, <<1969, 1969>>, <<1984, 2026>>,
     <<2036, 2037>>, <<2042, 2042>>, <<2048, 2069>>, <<2074, 2074>>,
     <<2084, 2084>>, <<2088, 2088>>, <<2112, 2136>>, <<2144, 2154>>,
     <<2160, 2183>>, <<2185, 2190>>, <<2208, 2249>>, <<2308, 2361>>,
     <<2365, 2365>>, <<2384, 2384>>, <<2392, 2401>>, <<2406, 2415>>,
     <<2417, 2432>>, <<2437, 2444>>, <<2447, 2448>>, <<2451, 2472>>,
     <<2474, 2480>>, <<2482, 2482>>, <<2486, 2489>>, <<2493, 2493>>,
     <<2510, 2510>>, <<2524, 2525>>, <<2527, 2529>>, <<2534, 2545>>,
     <<2548, 2553>>, <<2556, 2556>>, <<2565, 2570>>, <<2575, 2576>>,
     <<2579, 2600>>, <<2602, 2608>>, <<2610, 2611>>, <<2613, 2614>>,
     <<2616, 2617>>, <<2649, 2652>>, <<2654, 2654>>, <<2662, 2671>>,
     <<2674, 2676>>, <<2693, 2701>>, <<2703, 2705>>, <<2707, 2728>>,
     <<2730, 2736>>, <<2738, 2739>>, <<2741, 2745>>, <<2749, 2749>>,
     <<2768, 2768>>, <<2784, 2785>>, <<2790, 2799>>, <<2809, 2809>>,
     <<2821, 2828>>, <<2831, 2832>>, <<2835, 2856>>, <<2858, 2864>>,
     <<2866, 2867>>, <<2869, 2873>>, <<2877, 2877>>, <<2908, 2909>>,
     <<2911, 2913>>, <<2918, 2927>>, <<2929, 2935>>, <<2947, 2947>>,
     <<2949, 2954>>, <<2958, 2960>>, <<2962, 2965>>, <<2969, 2970>>,
     <<2972, 2972>>, <<2974, 2975>>, <<2979, 2980>>, <<2984, 2986>>,
     <<2990, 3001>>, <<3024, 3024>>, <<3046, 3058>>, <<3077, 3084>>,
     <<3086, 3088>>, <<3090, 3112>>, <<3114, 3129>>, <<3133, 3133>>,
     <<3160, 3162>>, <<3165, 3165>>, <<3168, 3169>>, <<3174, 3183>>,
     <<3192, 3198>>, <<3200, 3200>>, <<3205, 3212>>, <<3214, 3216>>,
     <<3218, 3240>>, <<3242, 3251>>, <<3253, 3257>>, <<3261, 3261>>,
     <<3293, 3294>>, <<3296, 3297>>, <<3302, 3311>>, <<3313, 3314>>,
     <<3332, 3340>>, <<3342, 3344>>, <<3346, 3386>>, <<3389, 3389>>,
     <<3406, 3406>>, <<3412, 3414>>, <<3416, 3425>>, <<3430, 3448>>,
     <<3450, 3455>>, <<3461, 3478>>, <<3482, 3505>>, <<3507, 3515>>,
     <<3517, 3517>>, <<3520, 3526>>, <<3558, 3567>>, <<3585, 3632>>,
     <<3634, 3635>>, <<3648, 3654>>, <<3664, 3673>>, <<3713, 3714>>,
     <<3716, 3716>>, <<3718, 3722>>, <<3724, 3747>>, <<3749, 3749>>,
     <<3751, 3760>>, <<3762, 3763>>, <<3773, 3773>>, <<3776, 3780>>,
     <<3782, 3782>>, <<3792, 3801>>, <<3804, 3807>>, <<3840, 3840>>,
     <<3872, 3891>>, <<3904, 3911>>, <<3913, 3948>>, <<3976, 3980>>,
     <<4096, 4138>>, <<4159, 4169>>, <<4176, 4181>>, <<4186, 4189>>,
     <<4193, 4193>>, <<4197, 4198>>, <<4206, 4208>>, <<4213, 4225>>,
     <<4238, 4238>>, <<4240, 4249>>, <<4256, 4293>>, <<4295, 4295>>,
     <<4301, 4301>>, <<4304, 4346>>, <<4348, 4680>>, <<4682, 4685>>,
     <<4688, 4694>>, <<4696, 4696>>, <<4698, 4701>>, <<4704, 4744>>,
     <<4746, 4749>>, <<4752, 4784>>, <<4786, 4789>>, <<4792, 4798>>,
     <<4800, 4800>>, <<4802, 4805>>, <<4808, 4822>>, <<4824, 4880>>,
     <<4882, 4885>>, <<4888, 4954>>, <<4969, 4988>>, <<4992, 5007>>,
     <<5024, 5109>>, <<5112, 5117>>, <<5121, 5740>>, <<5743, 5759>>,
     <<5761, 5786>>, <<5792, 5866>>, <<5870, 5880>>, <<5888, 5905>>,
     <<5919, 5937>>, <<5952, 5969>>, <<5984, 5996>>, <<5998, 6000>>,
     <<6016, 6067>>, <<6103, 6103>>, <<6108, 6108>>, <<6112, 6121>>,
     <<6128, 6137>>, <<6160, 6169>>, <<6176, 6264>>, <<6272, 6276>>,
     <<6279, 6312>>, <<6314, 6314>>, <<6320, 6389>>, <<6400, 6430>>,
     <<6470, 6509>>, <<6512, 6516>>, <<6528, 6571>>, <<6576, 6601>>,
     <<6608, 6618>>, <<6656, 6678>>, <<6688, 6740>>, <<6784, 6793>>,
     <<6800, 6809>>, <<6823, 6823>>, <<6917, 6963>>, <<6981, 6988>>,
     <<6992, 7001>>, <<7043, 7072>>, <<7086, 7141>>, <<7168, 7203>>,
     <<7232, 7241>>, <<7245, 7293>>, <<7296, 7304>>, <<7312, 7354>>,
     <<7357, 7359>>, <<7401, 7404>>, <<7406, 7411>>, <<7413, 7414>>,
     <<7418, 7418>>, <<7424, 7615>>, <<7680, 7957>>, <<7960, 7965>>,
     <<7968, 8005>>, <<8008, 8013>>, <<8016, 8023>>, <<8025, 8025>>,
     <<8027, 8027>>, <<8029, 8029>>, <<8031, 8061>>, <<8064, 8116>>,
     <<8118, 8124>>, <<8126, 8126>>, <<8130, 8132>>, <<8134, 8140>>,
     <<8144, 8147>>, <<8150, 8155>>, <<8160, 8172>>, <<8178, 8180>>,
     <<8182, 8188>>, <<8304, 8305>>, <<8308, 8313>>, <<8319, 8329>>,
     <<8336, 8348>>, <<8450, 8450>>, <<8455, 8455>>, <<8458, 8467>>,
     <<8469, 8469>>, <<8473, 8477>>, <<8484, 8484>>, <<8486, 8486>>,
     <<8488, 8488>>, <<8490, 8493>>, <<8495, 8505>>, <<8508, 8511>>,
     <<8517, 8521>>, <<8526, 8526>>, <<8528, 8585>>, <<9312, 9371>>,
     <<9450, 9471>>, <<10102, 10131>>, <<11264, 11492>>, <<11499, 11502>>,
     <<11506, 11507>>, <<11517, 11517>>, <<11520, 11557>>, <<11559, 11559>>,
     <<11565, 11565>>, <<11568, 11623>>, <<11631, 11631>>, <<11648, 11670>>,
     <<11680, 11686>>, <<11688, 11694>>, <<11696, 11702>>, <<11704, 11710>>,
     <<11712, 11718>>, <<11720, 11726>>, <<11728, 11734>>, <<11736, 11742>>,
     <<11823, 11823>>, <<12293, 12295>>, <<12321, 12329>>, <<12337, 12341>>,
     <<12344, 12348>>, <<12353, 12438>>, <<12445, 12447>>, <<12449, 12538>>,
     <<12540, 12543>>, <<12549, 12591>>, <<12593, 12686>>, <<12690, 12693>>,
     <<12704, 12735>>, <<12784, 12799>>, <<12832, 12841>>, <<12872, 12879>>,
     <<12881, 12895>>, <<12928, 12937>>, <<12977, 12991>>, <<13312, 19903>>,
     <<19968, 42124>>, <<42192, 42237>>, <<42240, 42508>>, <<42512, 42539>>,
     <<42560, 42606>>, <<42623, 42653>>, <<42656, 42735>>, <<42775, 42783>>,
     <<42786, 42888>>, <<42891, 42954>>, <<42960, 42961>>, <<42963, 42963>>,
     <<42965, 42969>>, <<42994, 43009>>, <<43011, 43013>>, <<43015, 43018>>,
     <<43020, 43042>>, <<43056, 43061>>, <<43072, 43123>>, <<43138, 43187>>,
     <<43216, 43225>>, <<43250, 43255>>, <<43259, 43259>>, <<43261, 43262>>,
     <<43264, 43301>>, <<43312, 43334>>, <<43360, 43388>>, <<43396, 43442>>,
     <<43471, 43481>>, <<43488, 43492>>, <<43494, 43518>>, <<43520, 43560>>,
     <<43584, 43586>>, <<43588, 43595>>, <<43600, 43609>>, <<43616, 43638>>,
     <<43642, 43642>>, <<43646, 43695>>, <<43697, 43697>>, <<43701, 43702>>,
     <<43705, 43709>>, <<43712, 43712>>, <<43714, 43714>>, <<43739, 43741>>,
     <<43744, 43754>>, <<43762, 43764>>, <<43777, 43782>>, <<43785, 43790>>,
     <<43793, 43798>>, <<43808, 43814>>, <<43816, 43822>>, <<43824, 43866>>,
     <<43868, 43881>>, <<43888, 44002>>, <<44016, 44025>>, <<44032, 55203>>,
     <<55216, 55238>>, <<55243, 55291>>, <<63744, 64109>>, <<64112, 64217>>,
     <<64256, 64262>>, <<64275, 64279>>, <<64285, 64285>>, <<64287, 64296>>,
     <<64298, 64310>>, <<64312, 64316>>, <<64318, 64318>>, <<64320, 64321>>,
     <<64323, 64324>>, <<64326, 64433>>, <<64467, 64829>>, <<64848, 64911>>,
     <<64914, 64967>>, <<65008, 65019>>, <<65136, 65140>>, <<65142, 65276>>,
     <<65296, 65305>>, <<65313, 65338>>, <<65345, 65370>>, <<65382, 65470>>,
     <<65474, 65479>>, <<65482, 65487>>, <<65490, 65495>>, <<65498, 65500>>,
     <<65536, 65547>>, <<65549, 65574>>, <<65576, 65594>>, <<65596, 65597>>,
     <<65599, 65613>>, <<65616, 65629>>, <<65664, 65786>>, <<65799, 65843>>,
     <<65856, 65912>>, <<65930, 65931>>, <<66176, 66204>>, <<66208, 66256>>,
     <<66273, 66299>>, <<66304, 66339>>, <<66349, 66378>>, <<66384, 66421>>,
     <<66432, 66461>>, <<66464, 66499>>, <<66504, 66511>>, <<66513, 66517>>,
     <<66560, 66717>>, <<66720, 66729>>, <<66736, 66771>>, <<66776, 66811>>,
     <<66816, 66855>>, <<66864, 66915>>, <<66928, 66938>>, <<66940, 66954>>,
     <<66956, 66962>>, <<66964, 66965>>, <<66967, 66977>>, <<66979, 66993>>,
     <<66995, 67001>>, <<67003, 67004>>, <<67072, 67382>>, <<67392, 67413>>,
     <<67424, 67431>>, <<67456, 67461>>, <<67463, 67504>>, <<67506, 67514>>,
     <<67584, 67589>>, <<67592, 67592>>, <<67594, 67637>>, <<67639, 67640>>,
     <<67644, 67644>>, <<67647, 67669>>, <<67672, 67702>>, <<67705, 67742>>,
     <<67751, 67759>>, <<67808, 67826>>, <<67828, 67829>>, <<67835, 67867>>,
     <<67872, 67897>>, <<67968, 68023>>, <<68028, 68047>>, <<68050, 68096>>,
     <<68112, 68115>>, <<68117, 68119>>, <<68121, 68149>>, <<68160, 68168>>,
     <<68192, 68222>>, <<68224, 68255>>, <<68288, 68295>>, <<68297, 68324>>,
     <<68331, 68335>>, <<68352, 68405>>, <<68416, 68437>>, <<68440, 68466>>,
     <<68472, 68497>>, <<68521, 68527>>, <<68608, 68680>>, <<68736, 68786>>,
     <<68800, 68850>>, <<68858, 68899>>, <<68912, 68921>>, <<69216, 69246>>,
     <<69248, 69289>>, <<69296, 69297>>, <<69376, 69415>>, <<69424, 69445>>,
     <<69457, 69460>>, <<69488, 69505>>, <<69552, 69579>>, <<69600, 69622>>,
     <<69635, 69687>>, <<69714, 69743>>, <<69745, 69746>>, <<69749, 69749>>,
     <<69763, 69807>>, <<69840, 69864>>, <<69872, 69881>>, <<69891, 69926>>,
     <<69942, 69951>>, <<69956, 69956>>, <<69959, 69959>>, <<69968, 70002>>,
     <<70006, 70006>>, <<70019, 70066>>, <<70081, 70084>>, <<70096, 70106>>,
     <<70108, 70108>>, <<70113, 70132>>, <<70144, 70161>>, <<70163, 70187>>,
     <<70207, 70208>>, <<70272, 70278>>, <<70280, 70280>>, <<70282, 70285>>,
     <<70287, 70301>>, <<70303, 70312>>, <<70320, 70366>>, <<70384, 70393>>,
     <<70405, 70412>>, <<70415, 70416>>, <<70419, 70440>>, <<70442, 70448>>,
     <<70450, 70451>>, <<70453, 70457>>, <<70461, 70461>>, <<70480, 70480>>,
     <<70493, 70497>>, <<70656, 70708>>, <<70727, 70730>>, <<70736, 70745>>,
     <<70751, 70753>>, <<70784, 70831>>, <<70852, 70853>>, <<70855, 70855>>,
     <<70864, 70873>>, <<71040, 71086>>, <<71128, 71131>>, <<71168, 71215>>,
     <<71236, 71236>>, <<71248, 71257>>, <<71296, 71338>>, <<71352, 71352>>,
     <<71360, 71369>>, <<71424, 71450>>, <<71472, 71483>>, <<71488, 71494>>,
     <<71680, 71723>>, <<71840, 71922>>, <<71935, 71942>>, <<71945, 71945>>,
     <<71948, 71955>>, <<71957, 71958>>, <<71960, 71983>>, <<71999, 71999>>,
     <<72001, 72001>>, <<72016, 72025>>, <<72096, 72103>>, <<72106, 72144>>,
     <<72161, 72161>>, <<72163, 72163>>, <<72192, 72192>>, <<72203, 72242>>,
     <<72250, 72250>>, <<72272, 72272>>, <<72284, 72329>>, <<72349, 72349>>,
     <<72368, 72440>>, <<72704, 72712>>, <<72714, 72750>>, <<72768, 72768>>,
     <<72784, 72812>>, <<72818, 72847>>, <<72960, 72966>>, <<72968, 72969>>,
     <<72971, 73008>>, <<73030, 73030>>, <<73040, 73049>>, <<73056, 73061>>,
     <<73063, 73064>>, <<73066, 73097>>, <<73112, 73112>>, <<73120, 73129>>,
     <<73440, 73458>>, <<73474, 73474>>, <<73476, 73488>>, <<73490, 73523>>,
     <<73552, 73561>>, <<73648, 73648>>, <<73664, 73684>>, <<73728, 74649>>,
     <<74752, 74862>>, <<74880, 75075>>, <<77712, 77808>>, <<77824, 78895>>,
     <<78913, 78918>>, <<82944, 83526>>, <<92160, 92728>>, <<92736, 92766>>,
     <<92768, 92777>>, <<92784, 92862>>, <<92864, 92873>>, <<92880, 92909>>,
     <<92928, 92975>>, <<92992, 92995>>, <<93008, 93017>>, <<93019, 93025>>,
     <<93027, 93047>>, <<93053, 93071>>, <<93760, 93846>>, <<93952, 94026>>,
     <<94032, 94032>>, <<94099, 94111>>, <<94176, 94177>>, <<94179, 94179>>,
     <<94208, 100343>>, <<100352, 101589>>, <<101632, 101640>>,
     <<110576, 110579>>, <<110581, 110587>>, <<110589, 110590>>,
     <<110592, 110882>>, <<110898, 110898>>, <<110928, 110930>>,
     <<110933, 110933>>, <<110948, 110951>>, <<110960, 111355>>,
     <<113664, 113770>>, <<113776, 113788>>, <<113792, 113800>>,
     <<113808, 113817>>, <<119488, 119507>>, <<119520, 119539>>,
     <<119648, 119672>>, <<119808, 119892>>, <<119894, 119964>>,
     <<119966, 119967>>, <<119970, 119970>>, <<119973, 119974>>,
     <<119977, 119980>>, <<119982, 119993>>, <<119995, 119995>>,
     <<119997, 120003>>, <<120005, 120069>>, <<120071, 120074>>,
     <<120077, 120084>>, <<120086, 120092>>, <<120094, 120121>>,
     <<120123, 120126>>, <<120128, 120132>>, <<120134, 120134>>,
     <<120138, 120144>>, <<120146, 120485>>, <<120488, 120512>>,
     <<120514, 120538>>, <<120540, 120570>>, <<120572, 120596>>,
     <<120598, 120628>>, <<120630, 120654>>, <<120656, 120686>>,
     <<120688, 120712>>, <<120714, 120744>>, <<120746, 120770>>,
     <<120772, 120779>>, <<120782, 120831>>, <<122624, 122654>>,
     <<122661, 122666>>, <<122928, 122989>>, <<123136, 123180>>,
     <<123191, 123197>>, <<123200, 123209>>, <<123214, 123214>>,
     <<123536, 123565>>, <<123584, 123627>>, <<123632, 123641>>,
     <<124112, 124139>>, <<124144, 124153>>, <<124896, 124902>>,
     <<124904, 124907>>, <<124909, 124910>>, <<124912, 124926>>,
     <<124928, 125124>>, <<125127, 125135>>, <<125184, 125251>>,
     <<125259, 125259>>, <<125264, 125273>>, <<126065, 126123>>,
     <<126125, 126127>>, <<126129, 126132>>, <<126209, 126253>>,
     <<126255, 126269>>, <<126464, 126467>>, <<126469, 126495>>,
     <<126497, 126498>>, <<126500, 126500>>, <<126503, 126503>>,
     <<126505, 126514>>, <<126516, 126519>>, <<126521, 126521>>,
     <<126523, 126523>>, <<126530, 126530>>, <<126535, 126535>>,
     <<126537, 126537>>, <<126539, 126539>>, <<126541, 126543>>,
     <<126545, 126546>>, <<126548, 126548>>, <<126551, 126551>>,
     <<126553, 126553>>, <<126555, 126555>>, <<126557, 126557>>,
     <<126559, 126559>>, <<126561, 126562>>, <<126564, 126564>>,
     <<126567, 126570>>, <<126572, 126578>>, <<126580, 126583>>,
     <<126585, 126588>>, <<126590, 126590>>, <<126592, 126601>>,
     <<126603, 126619>>, <<126625, 126627>>, <<126629, 126633>>,
     <<126635, 126651>>, <<127232, 127244>>, <<130032, 130041>>,
     <<131072, 173791>>, <<173824, 177977>>, <<177984, 178205>>,
     <<178208, 183969>>, <<183984, 191456>>, <<191472, 192093>>,
     <<194560, 195101>>, <<196608, 201546>>, <<201552, 205743>>}

WordChars == UNION {r[1]..r[2] : r \in WordRanges}

\* The boundaries of str.splitlines(): \n \r \v \f \x1c \x1d \x1e \x85
\*     (a "\r\n" pair is one boundary).
IsLineBreak(c) == c \in {10, 11, 12, 13, 28, 29, 30, 133, 8232, 8233}

\* The separator class of keywords_from_query:
\* whitespace , . ; : ( ) [ ] { } " ' U+05BE - U+2013 U+2014 / \
IsTokenSep(c) ==
    \/ IsSpace(c)
    \/ c \in {44, 46, 59, 58, 40, 41, 91, 93, 123, 125, 34, 39, 1470, 45,
              8211, 8212, 47, 92}

\* The tail class of _SECTION_REF_RE: \w ( ) U+05F4 " U+05F3 -
RefTailChars == WordChars \cup {40, 41, 1524, 34, 1523, 45}

\* The characters after which _SENTENCE_SEP_RE splits on whitespace: [\.!?]
IsSentenceEnd(c) == c \in {46, 33, 63}

(***************************************************************************)
(* Constant tables of the source                                           *)
(***************************************************************************)

\* Python's None.
None == <<-1>>

\* The literal word that opens a section marker in _SECTION_REF_RE.
SectionWord == <<1505, 1506, 1497, 1507>>

\* The ellipsis U+2026 appended to a truncated snippet.
Ellipsis == <<8230>>

\* The default of best_snippet_for_query_in_doc's max_snippet_chars.
max_snippet_chars == 700

\* The radius of the citation window.
WindowRadius == 400

\* The default of keywords_from_query's min_len.
DefaultMinLen == 2

\* source_id and text of the "no information found" record.
SentinelId == <<78, 47, 65>>

SentinelText ==
    <<1500, 1488, 32, 1504, 1502, 1510, 1488, 32, 1502, 1497, 1491, 1506, 32,
      1514, 1493, 1488, 1501, 32, 1500, 1513, 1488, 1497, 1500, 1514, 1492,
      32, 1489, 1502, 1505, 1502, 1499, 1497, 32, 1492, 1511, 1512, 1497,
      1496, 1512, 1497, 1493, 1504, 1497, 1501, 32, 1513, 1505, 1493, 1508,
      1511, 1493, 46>>

\* _HE_STOPWORDS, in the order of the source.
HE_STOPWORDS == {
    <<1513, 1500>>, <<1506, 1500>>, <<1488, 1500>>, <<1506, 1501>>,
    <<1488, 1501>>, <<1488, 1493>>, <<1490, 1501>>, <<1493, 1499, 1503>>,
    <<1493, 1499, 1503, 44>>, <<1493, 1499, 1503, 46>>,
    <<1493, 1499, 1503, 59>>, <<1493, 1499, 1503, 58>>,
    <<1493, 1499, 1503, 1470>>, <<1499, 1500>>, <<1500, 1500, 1488>>,
    <<1502, 1489, 1500, 1497>>, <<1500, 1488>>, <<1499, 1503>>,
    <<1497, 1499, 1493, 1500>>, <<1497, 1499, 1493, 1500, 1492>>,
    <<1497, 1499, 1493, 1500, 1497, 1501>>, <<1497, 1492, 1497, 1492>>,
    <<1514, 1492, 1497, 1492>>, <<1500, 1508, 1497>>,
    <<1506, 1500, 1470, 1508, 1497>>, <<1500, 1508, 1497, 1492>>,
    <<1489, 1492, 1514, 1488, 1501>>, <<1500, 1499, 1498>>,
    <<1499, 1502, 1493>>, <<1493, 1499, 1493>>, <<1493, 1499, 1493, 39>>,
    <<1493, 1499, 1493, 8217, 46>>, <<1493, 1499, 1493, 8217>>,
    <<1493, 1499, 1493, 1523>>, <<1492, 1493, 1488>>, <<1492, 1497, 1488>>,
    <<1492, 1501>>, <<1492, 1503>>, <<1513, 1500, 1493>>,
    <<1513, 1500, 1492>>, <<1513, 1500, 1492, 1501>>,
    <<1500, 1492, 1497, 1493, 1514>>, <<1500, 1492>>, <<1500, 1493>>,
    <<1488, 1500, 1497, 1493>>, <<1488, 1500, 1497, 1492>>, <<1494, 1492>>,
    <<1494, 1488, 1514>>, <<1488, 1500, 1492>>, <<1488, 1513, 1512>>,
    <<1499, 1497>>, <<1499, 1498>>, <<1499, 1498, 44>>, <<1499, 1498, 46>>,
    <<1499, 1498, 59>>, <<1499, 1498, 58>>, <<1502, 45>>, <<1500, 45>>,
    <<1489, 45>>, <<1499, 45>>, <<1493, 45>>, <<1513, 45>> }

(***************************************************************************)
(* String primitives of Python                                             *)
(***************************************************************************)

\* The indices 1..n as a sequence.
Indices(n) == [i \in 1..n |-> i]

\* s[lo..hi] (1-based, inclusive), the empty string when lo > hi.
Slice(s, lo, hi) == [i \in 1..(hi - lo + 1) |-> s[lo + i - 1]]

\* s[:n] of a Python sequence: the first n items, all of s when n is above
\* its length, and for a negative n all but the last -n items.
Prefix(s, n) ==
    LET stop == IF n >= 0 THEN (IF n < Len(s) THEN n ELSE Len(s))
                ELSE (IF Len(s) + n > 0 THEN Len(s) + n ELSE 0)
    IN  Slice(s, 1, stop)

\* Whether sub occurs in s at index i (1-based).
OccursAt(s, sub, i) ==
    /\ i >= 1
    /\ i + Len(sub) - 1 <= Len(s)
    /\ \A j \in 1..Len(sub) : s[i + j - 1] = sub[j]

\* sub in s
Contains(s, sub) == \E i \in 1..(Len(s) - Len(sub) + 1) : OccursAt(s, sub, i)

\* s.index(sub), 0-based as in Python; -1 stands for the ValueError.
IndexOf(s, sub) ==
    IF Contains(s, sub)
    THEN (CHOOSE i \in 1..(Len(s) - Len(sub) + 1) :
              /\ OccursAt(s, sub, i)
              /\ \A j \in 1..(i - 1) : ~OccursAt(s, sub, j)) - 1
    ELSE -1

\* s.strip()
Strip(s) ==
    IF \A i \in 1..Len(s) : IsSpace(s[i])
    THEN <<>>
    ELSE LET lo == CHOOSE i \in 1..Len(s) :
                       /\ ~IsSpace(s[i])
                       /\ \A j \in 1..(i - 1) : IsSpace(s[j])
             hi == CHOOSE i \in 1..Len(s) :
                       /\ ~IsSpace(s[i])
                       /\ \A j \in (i + 1)..Len(s) : IsSpace(s[j])
         IN  Slice(s, lo, hi)

\* s.rstrip()
RStrip(s) ==
    IF \A i \in 1..Len(s) : IsSpace(s[i])
    THEN <<>>
    ELSE LET hi == CHOOSE i \in 1..Len(s) :
                       /\ ~IsSpace(s[i])
                       /\ \A j \in (i + 1)..Len(s) : IsSpace(s[j])
         IN  Slice(s, 1, hi)

\* The pieces re.split leaves between separators, empty pieces dropped: the
\* maximal runs of positions of s outside seps, the set of the positions the
\* separators consume, in order.  (Every regular expression split on in the
\* source matches one character or more, and every caller drops the empty
\* pieces.)
Runs(s, seps) ==
    LET n == Len(s)
        IsStart(i) == i \notin seps /\ (i = 1 \/ (i - 1) \in seps)
        EndOf(i) == CHOOSE j \in i..n :
                        /\ (j = n \/ (j + 1) \in seps)
                        /\ \A k \in i..j : k \notin seps
        starts == SelectSeq(Indices(n), IsStart)
    IN  [k \in 1..Len(starts) |-> Slice(s, starts[k], EndOf(starts[k]))]

\* [p.strip() for p in pieces if p.strip()]
StripAll(pieces) ==
    LET stripped == [k \in 1..Len(pieces) |-> Strip(pieces[k])]
    IN  SelectSeq(stripped, LAMBDA p : p # <<>>)

(***************************************************************************)
(* Text functions of the source                                            *)
(***************************************************************************)

\* normalize_hebrew: drop the niqqud, collapse each run of [ \t] into one
\* space, strip.
normalize_hebrew(text) ==
    LET t1 == SelectSeq(text, LAMBDA c : ~IsNiqqud(c))
        Kept(i) == ~(IsBlank(t1[i]) /\ i > 1 /\ IsBlank(t1[i - 1]))
        kept == SelectSeq(Indices(Len(t1)), Kept)
        t2 == [k \in 1..Len(kept) |->
                  IF IsBlank(t1[kept[k]]) THEN 32 ELSE t1[kept[k]]]
    IN  Strip(t2)

\* The positions _PARAGRAPH_SEP_RE ( \n{2,}|(?:\r?\n)+ ) consumes: every
\* "\n", and every "\r" that a "\n" follows.  Either alternative matches at
\* a lone "\n", so one line break is a separator as well.
ParagraphSepPos(text, i) ==
    \/ text[i] = 10
    \/ text[i] = 13 /\ i < Len(text) /\ text[i + 1] = 10

\* split_to_paragraphs
split_to_paragraphs(text) ==
    LET parts == StripAll(Runs(text, {i \in 1..Len(text) :
                                          ParagraphSepPos(text, i)}))
    IN  IF Len(parts) <= 1
        THEN StripAll(Runs(text, {i \in 1..Len(text) :
                                      IsLineBreak(text[i])}))
        ELSE parts

\* The positions _SENTENCE_SEP_RE ( (?<=[\.!?])\s+|\n+ ) consumes: every
\* "\n", and the whole of a whitespace run that starts right after one of
\* . ! ? (the lookbehind holds only at the first character of a run).
SentenceSepPos(text, i) ==
    \/ text[i] = 10
    \/ /\ IsSpace(text[i])
       /\ LET a == CHOOSE j \in 1..i :
                       /\ \A k \in j..i : IsSpace(text[k])
                       /\ (j = 1 \/ ~IsSpace(text[j - 1]))
          IN  a > 1 /\ IsSentenceEnd(text[a - 1])

\* split_to_sentences
split_to_sentences(text) ==
    LET candidates == StripAll(Runs(text, {i \in 1..Len(text) :
                                               SentenceSepPos(text, i)}))
    IN  IF candidates # <<>> THEN candidates ELSE <<Strip(text)>>

\* The last index of the run of characters of the class chars that starts at
\* index from; from - 1 when there is no such character at from.
RunEnd(text, from, chars) ==
    CHOOSE j \in (from - 1)..Len(text) :
        /\ (j = Len(text) \/ text[j + 1] \notin chars)
        /\ \A k \in from..j : text[k] \in chars

\* The last index of the match of _SECTION_REF_RE that starts at index p,
\* 0 when there is none: the section word, whitespace, digits, then the
\* longest tail.
RefMatchEnd(text, p) ==
    IF ~OccursAt(text, SectionWord, p) THEN 0
    ELSE LET wsEnd == RunEnd(text, p + Len(SectionWord), WhitespaceChars)
             dEnd == RunEnd(text, wsEnd + 1, DigitChars)
         IN  IF wsEnd < p + Len(SectionWord) \/ dEnd < wsEnd + 1 THEN 0
             ELSE RunEnd(text, dEnd + 1, RefTailChars)

\* extract_section_ref: the first match of _SECTION_REF_RE, or None.
extract_section_ref(around_text) ==
    IF \A p \in 1..Len(around_text) : RefMatchEnd(around_text, p) = 0
    THEN None
    ELSE LET p == CHOOSE i \in 1..Len(around_text) :
                      /\ RefMatchEnd(around_text, i) > 0
                      /\ \A j \in 1..(i - 1) : RefMatchEnd(around_text, j) = 0
         IN  Slice(around_text, p, RefMatchEnd(around_text, p))

\* Mutant of keywords_from_query: repeated tokens are kept.
keywords_from_query_repeats(query, min_len) ==
    LET qn == normalize_hebrew(query)
        tokens == Runs(qn, {i \in 1..Len(qn) : IsTokenSep(qn[i])})
    IN  SelectSeq(tokens, LAMBDA t :
            t # <<>> /\ Len(t) >= min_len /\ t \notin HE_STOPWORDS)

\* keywords_from_query
keywords_from_query(query, min_len) ==
    LET qn == normalize_hebrew(query)
        tokens == Runs(qn, {i \in 1..Len(qn) : IsTokenSep(qn[i])})
        kws == SelectSeq(tokens, LAMBDA t :
                   t # <<>> /\ Len(t) >= min_len /\ t \notin HE_STOPWORDS)
        First(k) == \A j \in 1..(k - 1) : kws[j] # kws[k]
        firsts == SelectSeq(Indices(Len(kws)), First)
    IN  [k \in 1..Len(firsts) |-> kws[firsts[k]]]

\* Mutant of match_score: every occurrence of a keyword counts.
match_score_occurrences(text_norm, keywords) ==
    Cardinality({<<k, i>> \in (1..Len(keywords)) \X (1..Len(text_norm)) :
                    keywords[k] # <<>> /\ OccursAt(text_norm, keywords[k], i)})

\* match_score: the number of keywords that occur in text_norm.
match_score(text_norm, keywords) ==
    Cardinality({k \in 1..Len(keywords) :
                    keywords[k] # <<>> /\ Contains(text_norm, keywords[k])})

(***************************************************************************)
(* best_snippet_for_query_in_doc                                           *)
(***************************************************************************)

\* Mutant of IsBetter: a segment with an equal score replaces the best one.
IsBetterOrEqual(score, best_score) == score >= best_score

\* The test of the two scoring loops: a segment replaces the best one so far
\* only with a strictly higher score.
IsBetter(score, best_score) == score > best_score

\* The loop "for para in paragraphs" (and "for sent in sentences") from its
\* k-th segment on; best is the best segment so far and its score.
RECURSIVE ScanSegments(_, _, _, _)
ScanSegments(segments, kws, k, best) ==
    IF k > Len(segments) THEN best
    ELSE LET score == match_score(normalize_hebrew(segments[k]), kws)
         IN  ScanSegments(segments, kws, k + 1,
                 IF IsBetter(score, best.score)
                 THEN [seg |-> segments[k], score |-> score]
                 ELSE best)

\* Mutant of BestParagraph: a paragraph is scored only if it holds a
\* keyword as it is written, before normalize_hebrew.
BestParagraphRaw(content, kws) ==
    LET paragraphs == split_to_paragraphs(content)
        hits == SelectSeq(paragraphs, LAMBDA p : match_score(p, kws) > 0)
    IN  IF hits = <<>> THEN [seg |-> None, score |-> 0]
        ELSE ScanSegments(hits, kws, 1, [seg |-> None, score |-> 0])

\* best_para and best_score after the paragraph loop.
BestParagraph(content, kws) ==
    ScanSegments(split_to_paragraphs(content), kws, 1,
                 [seg |-> None, score |-> 0])

\* best_sent and best_score after the sentence loop, which runs only when no
\* paragraph scored.
BestSentence(content, kws, para) ==
    IF para.score = 0
    THEN ScanSegments(split_to_sentences(content), kws, 1,
                      [seg |-> None, score |-> 0])
    ELSE [seg |-> None, score |-> para.score]

\* Mutant of CitationWindow: the window starts at the paragraph.
CitationWindowForward(content, idx, length) ==
    LET hi == IF idx + length + WindowRadius < Len(content)
              THEN idx + length + WindowRadius ELSE Len(content)
    IN  Slice(content, idx + 1, hi)

\* content[max(0, idx - 400): idx + len(best_para) + 400], idx 0-based.
CitationWindow(content, idx, length) ==
    LET lo == IF idx - WindowRadius > 0 THEN idx - WindowRadius ELSE 0
        hi == IF idx + length + WindowRadius < Len(content)
              THEN idx + length + WindowRadius ELSE Len(content)
    IN  Slice(content, lo + 1, hi)

\* The section_ref of a chosen segment: the segment's own marker, else, for
\* a paragraph, the first marker of the window around it.
SectionRefFor(content, raw_snippet, best_para) ==
    LET section_ref == extract_section_ref(raw_snippet)
    IN  IF section_ref = None /\ best_para # None
        THEN LET idx == IndexOf(content, best_para)
             IN  IF idx < 0 THEN None
                 ELSE extract_section_ref(
                          CitationWindow(content, idx, Len(best_para)))
        ELSE section_ref

\* Mutant of Truncate: the cut is one character late.
TruncateOneLate(raw_snippet, max_chars) ==
    LET snippet == Strip(raw_snippet)
    IN  IF Len(snippet) > max_chars
        THEN RStrip(Prefix(snippet, max_chars + 1)) \o Ellipsis
        ELSE snippet

\* The truncation of a snippet to max_chars characters.
Truncate(raw_snippet, max_chars) ==
    LET snippet == Strip(raw_snippet)
    IN  IF Len(snippet) > max_chars
        THEN RStrip(Prefix(snippet, max_chars)) \o Ellipsis
        ELSE snippet

\* The return value None of best_snippet_for_query_in_doc.
NotFound == [found |-> FALSE, snippet |-> <<>>, section_ref |-> None]

best_snippet_for_query_in_doc(query, doc, max_chars) ==
    LET kws == keywords_from_query(query, DefaultMinLen)
        para == BestParagraph(doc.content, kws)
        sent == BestSentence(doc.content, kws, para)
        raw_snippet == IF para.seg # None THEN para.seg ELSE sent.seg
    IN  IF kws = <<>> THEN NotFound
        ELSE IF sent.score = 0 THEN NotFound
        ELSE IF raw_snippet = None \/ raw_snippet = <<>> THEN NotFound
        ELSE [found |-> TRUE,
              snippet |-> Truncate(raw_snippet, max_chars),
              section_ref |-> SectionRefFor(doc.content, raw_snippet, para.seg)]

(***************************************************************************)
(* Input validation (the pydantic models)                                  *)
(***************************************************************************)

\* "not v.strip()"
IsBlankStr(v) == Strip(v) = <<>>

\* CriteriaDocument.non_empty on id and on content.
DocumentAccepted(d) == ~IsBlankStr(d.id) /\ ~IsBlankStr(d.content)

\* Mutant of QueriesAccepted: only the empty list is refused.
QueriesAcceptedAnyString(v) == v # <<>>

\* RetrieverInput.non_empty_queries
QueriesAccepted(v) == v # <<>> /\ \A i \in 1..Len(v) : ~IsBlankStr(v[i])

\* RetrieverInput.non_empty_docs
DocsAccepted(v) == v # <<>>

\* Whether building the documents and the RetrieverInput succeeds.
InputAccepted(args) ==
    /\ \A i \in 1..Len(args.criteria_documents) :
           DocumentAccepted(args.criteria_documents[i])
    /\ QueriesAccepted(args.criteria_queries)
    /\ DocsAccepted(args.criteria_documents)

(***************************************************************************)
(* Bounds and inputs of the model                                          *)
(***************************************************************************)

\* The longest query list, the longest document list and the largest
\* max_per_query of a call.
MaxQueries == 2
MaxDocs == 2
MaxPerQuery == 2

\* The sequences over S of length lo..hi.
SeqsOf(S, lo, hi) == UNION {[1..k -> S] : k \in lo..hi}

\* Queries: "gil shel nekhut" (age of disability: two keywords and a
\* stop-word) and "shel al" (of, on: stop-words only).
QueryTwo == <<1490, 1497, 1500, 32, 1513, 1500, 32, 1504, 1499, 1493, 1514>>
QueryStop == <<1513, 1500, 32, 1506, 1500>>
QueryPalette == {QueryTwo, QueryStop}

\* Documents: D1 holds one of QueryTwo's keywords (written with a vowel
\* point, U+05B4, and followed by two spaces), D2 holds both, in its second
\* paragraph, D3 holds none.
DocOne ==
    [id |-> <<68, 49>>,
     content |-> <<1490, 1460, 1497, 1500, 32, 32, 1502, 1497, 1504, 1497,
                   1502, 1500, 1497>>]
DocTwo ==
    [id |-> <<68, 50>>,
     content |-> <<1488, 1495, 1512, 10, 10, 1504, 1499, 1493, 1514, 32,
                   1500, 1508, 1497, 32, 1490, 1497, 1500>>]
DocNone == [id |-> <<68, 51>>, content |-> <<1488, 1495, 1512>>]
DocPalette == {DocOne, DocTwo, DocNone}

Args(queries, docs, mpq) ==
    [criteria_queries |-> queries, criteria_documents |-> docs,
     max_per_query |-> mpq]

\* The inputs that pass validation.
ValidInputs ==
    {Args(qs, ds, m) : qs \in SeqsOf(QueryPalette, 1, MaxQueries),
                       ds \in SeqsOf(DocPalette, 1, MaxDocs),
                       m \in 1..MaxPerQuery}

\* Inputs that validation rejects: no query, a blank query (empty, or
\* whitespace only), no document, a document with a blank id or a blank
\* content.
InvalidInputs ==
    {Args(<<>>, <<DocOne>>, 1),
     Args(<<<<>>>>, <<DocOne>>, 1),
     Args(<<QueryTwo, <<32, 9>>>>, <<DocOne, DocTwo>>, 1),
     Args(<<QueryTwo>>, <<>>, 1),
     Args(<<QueryTwo>>, <<DocTwo, [id |-> <<32>>, content |-> DocOne.content]>>,
          MaxPerQuery),
     Args(<<QueryTwo>>, <<[id |-> DocOne.id, content |-> <<32, 10, 32>>]>>, 1),
     Args(<<QueryStop>>, <<[id |-> DocOne.id, content |-> <<>>]>>, 1)}

Inputs == ValidInputs \cup InvalidInputs

\* The input of a call made between two calls with the same input.
BetweenInputs == {Args(<<QueryStop, QueryTwo>>, <<DocTwo, DocOne>>, 1)}

(***************************************************************************)
(* retrieve as a state machine                                             *)
(***************************************************************************)

VARIABLES
    args,         \* what the caller passes: queries, documents, max_per_query
    pc,           \* where the call is: "construct", "rejected", "call",
                  \* "query", "docs", "emit", "done"
    q_idx,        \* the index of the query q of "for q in queries"
    d_idx,        \* the index of the document d of "for d in docs"
    candidates,   \* retrieve's list candidates
    results,      \* retrieve's list results
    emitted_for,  \* for each record of results, the index of its query
    first_args,   \* the input of the first call
    first_output, \* what the first call returned
    between,      \* whether a call with another input has been made since
    fn,           \* the pure function applied last, its arguments and value
    router_pc,    \* where Router.py is: "idle", "import", "import_error",
                  \* "construct", "rejected", "route", "llm" (the request
                  \* is with the language model), "scored", "returned"
    environ,      \* os.environ after load_dotenv(), as far as Router.py
                  \* reads it: ROUTER_MIN_CONFIDENCE and OPENAI_API_KEY
    MIN_CONFIDENCE, \* the module's MIN_CONFIDENCE
    client,       \* whether the module's _client is an OpenAI client
    payload,      \* the document_text the caller builds a RouterInput from
    llm,          \* the outcome of the language-model call
    scored,       \* route's local scored
    routed        \* the RouterOutput route returned

vars == <<args, pc, q_idx, d_idx, candidates, results, emitted_for,
          first_args, first_output, between, fn, router_pc, environ,
          MIN_CONFIDENCE, client, payload, llm, scored, routed>>

\* The variables of route.
router_vars ==
    <<router_pc, environ, MIN_CONFIDENCE, client, payload, llm, scored, routed>>

\* Router.py is not imported: no environment read, no MIN_CONFIDENCE.
NoEnviron == [ROUTER_MIN_CONFIDENCE |-> [kind |-> "unset"],
              OPENAI_API_KEY |-> FALSE]
Unbound == [kind |-> "unbound"]

\* No reply of the language model yet, and nothing returned by route yet.
NoReply == [kind |-> "none"]
NoRouted == [returned |-> FALSE, categories |-> <<>>, scored |-> <<>>,
             document_text |-> <<>>]

\* route is not being called.
RouterIdle ==
    /\ router_pc = "idle"
    /\ environ = NoEnviron
    /\ MIN_CONFIDENCE = Unbound
    /\ client = FALSE
    /\ payload = <<>>
    /\ llm = NoReply
    /\ scored = <<>>
    /\ routed = NoRouted

NoOutput == [returned |-> FALSE, sections |-> <<>>]
NoFn == [op |-> "none"]

\* Mutant of SentinelRecord: the first document's id instead of "N/A".
SentinelRecordFirstDoc ==
    [source_id |-> args.criteria_documents[1].id, text |-> SentinelText,
     section_ref |-> None]

\* RetrievedSection(source_id="N/A", text=..., section_ref=None)
SentinelRecord ==
    [source_id |-> SentinelId, text |-> SentinelText, section_ref |-> None]

InitWith(inputs) ==
    /\ args \in inputs
    /\ pc = "construct"
    /\ q_idx = 0
    /\ d_idx = 0
    /\ candidates = <<>>
    /\ results = <<>>
    /\ emitted_for = <<>>
    /\ first_args = args
    /\ first_output = NoOutput
    /\ between = FALSE
    /\ fn = NoFn
    /\ RouterIdle

Init == InitWith(Inputs)

\* The caller builds the CriteriaDocument objects and the RetrieverInput; a
\* validator that raises ends the run before retrieve is called.
Construct ==
    /\ pc = "construct"
    /\ pc' = IF InputAccepted(args) THEN "call" ELSE "rejected"
    /\ UNCHANGED <<args, q_idx, d_idx, candidates, results, emitted_for,
                   first_args, first_output, between, fn>>
    /\ UNCHANGED router_vars

\* Mutant of RetrieveBegin: results is not reset.
RetrieveBeginKeepsResults ==
    /\ pc = "call"
    /\ q_idx' = 1
    /\ pc' = "query"
    /\ UNCHANGED <<args, d_idx, candidates, results, emitted_for, first_args,
                   first_output, between, fn>>
    /\ UNCHANGED router_vars

\* retrieve is entered: results = []
RetrieveBegin ==
    /\ pc = "call"
    /\ results' = <<>>
    /\ emitted_for' = <<>>
    /\ q_idx' = 1
    /\ pc' = "query"
    /\ UNCHANGED <<args, d_idx, candidates, first_args, first_output,
                   between, fn>>
    /\ UNCHANGED router_vars

\* Mutant of QueryBegin: candidates is not reset for the next query.
QueryBeginKeepsCandidates ==
    /\ pc = "query"
    /\ q_idx <= Len(args.criteria_queries)
    /\ d_idx' = 1
    /\ pc' = "docs"
    /\ UNCHANGED <<args, q_idx, candidates, results, emitted_for, first_args,
                   first_output, between, fn>>
    /\ UNCHANGED router_vars

\* for q in queries: candidates = []
QueryBegin ==
    /\ pc = "query"
    /\ q_idx <= Len(args.criteria_queries)
    /\ candidates' = <<>>
    /\ d_idx' = 1
    /\ pc' = "docs"
    /\ UNCHANGED <<args, q_idx, results, emitted_for, first_args,
                   first_output, between, fn>>
    /\ UNCHANGED router_vars

\* Mutant of WithCandidate: every candidate carries the first document's id.
WithCandidateFirstId(cands, q, d) ==
    LET found == best_snippet_for_query_in_doc(q, d, max_snippet_chars)
    IN  IF found.found
        THEN Append(cands, [doc_id |-> args.criteria_documents[1].id,
                            snippet |-> found.snippet,
                            section_ref |-> found.section_ref])
        ELSE cands

\* Mutant of WithCandidate: the newest candidate goes first.
WithCandidateInFront(cands, q, d) ==
    LET found == best_snippet_for_query_in_doc(q, d, max_snippet_chars)
    IN  IF found.found
        THEN <<[doc_id |-> d.id, snippet |-> found.snippet,
                section_ref |-> found.section_ref]>> \o cands
        ELSE cands

\* The candidates after document d has been searched for query q.
WithCandidate(cands, q, d) ==
    LET found == best_snippet_for_query_in_doc(q, d, max_snippet_chars)
    IN  IF found.found
        THEN Append(cands, [doc_id |-> d.id, snippet |-> found.snippet,
                            section_ref |-> found.section_ref])
        ELSE cands

\* for d in docs: one document searched.
ScanDoc ==
    /\ pc = "docs"
    /\ d_idx <= Len(args.criteria_documents)
    /\ candidates' = WithCandidate(candidates, args.criteria_queries[q_idx],
                                   args.criteria_documents[d_idx])
    /\ d_idx' = d_idx + 1
    /\ UNCHANGED <<args, pc, q_idx, results, emitted_for, first_args,
                   first_output, between, fn>>
    /\ UNCHANGED router_vars

\* Mutant of Selected: every candidate is emitted, max_per_query is ignored.
SelectedAll(cands, mpq) ==
    [k \in 1..Len(cands) |->
        [source_id |-> cands[k].doc_id, text |-> cands[k].snippet,
         section_ref |-> cands[k].section_ref]]

\* candidates[:max_per_query] as records.
Selected(cands, mpq) ==
    LET cut == Prefix(cands, mpq)
    IN  [k \in 1..Len(cut) |->
            [source_id |-> cut[k].doc_id, text |-> cut[k].snippet,
             section_ref |-> cut[k].section_ref]]

\* Mutant of Extend: the group is put in front of the records so far.
ExtendInFront(res, group) == group \o res

\* results.append(...) for each record of a group, in order.
Extend(res, group) == res \o group

\* if not candidates: the sentinel record is appended.
EmitSentinel ==
    /\ pc = "docs"
    /\ d_idx > Len(args.criteria_documents)
    /\ candidates = <<>>
    /\ results' = Extend(results, <<SentinelRecord>>)
    /\ emitted_for' = Extend(emitted_for, <<q_idx>>)
    /\ q_idx' = q_idx + 1
    /\ pc' = "query"
    /\ UNCHANGED <<args, d_idx, candidates, first_args, first_output,
                   between, fn>>
    /\ UNCHANGED router_vars

\* Otherwise the first max_per_query candidates are appended.
EmitCandidates ==
    /\ pc = "docs"
    /\ d_idx > Len(args.criteria_documents)
    /\ candidates # <<>>
    /\ LET group == Selected(candidates, args.max_per_query)
       IN  /\ results' = Extend(results, group)
           /\ emitted_for' = Extend(emitted_for,
                                    [k \in 1..Len(group) |-> q_idx])
    /\ q_idx' = q_idx + 1
    /\ pc' = "query"
    /\ UNCHANGED <<args, d_idx, candidates, first_args, first_output,
                   between, fn>>
    /\ UNCHANGED router_vars

\* return RetrieverOutput(retrieved_sections=results)
Return ==
    /\ pc = "query"
    /\ q_idx > Len(args.criteria_queries)
    /\ pc' = "done"
    /\ first_output' = IF first_output.returned THEN first_output
                       ELSE [returned |-> TRUE, sections |-> results]
    /\ UNCHANGED <<args, q_idx, d_idx, candidates, results, emitted_for,
                   first_args, between, fn>>
    /\ UNCHANGED router_vars

\* The caller calls again: with the first call's input, or, right after a
\* call with that input, with another one.
NewCall ==
    /\ pc = "done"
    /\ \E next \in {first_args} \cup
                   (IF args = first_args THEN BetweenInputs ELSE {}) :
           /\ args' = next
           /\ between' = (between \/ next # first_args)
    /\ pc' = "construct"
    /\ UNCHANGED <<q_idx, d_idx, candidates, results, emitted_for,
                   first_args, first_output, fn>>
    /\ UNCHANGED router_vars

Next ==
    \/ Construct
    \/ RetrieveBegin
    \/ QueryBegin
    \/ ScanDoc
    \/ EmitSentinel
    \/ EmitCandidates
    \/ Return
    \/ NewCall

Spec == Init /\ [][Next]_vars

(***************************************************************************)
(* retrieve on long documents: the truncation length and the citation      *)
(* window                                                                  *)
(***************************************************************************)

\* How far around max_snippet_chars and around the edges of the citation
\* window the lengths and distances of the long documents range.
LongSlack == 2

\* The query "gil" (age).
QueryAge == <<1490, 1497, 1500>>

\* n times the character c.
Filler(n, c) == [i \in 1..n |-> c]

\* A one-paragraph document of n characters: "gil", a space, then "x"s, with
\* spaces at the positions blanks.
TruncContent(n, blanks) ==
    [i \in 1..n |-> IF i <= Len(QueryAge) THEN QueryAge[i]
                    ELSE IF i = Len(QueryAge) + 1 \/ i \in blanks THEN 32
                    ELSE 120]

TruncDoc(n, blanks) == [id |-> <<84>>, content |-> TruncContent(n, blanks)]

\* Paragraphs of max_snippet_chars - LongSlack .. max_snippet_chars +
\* LongSlack + 1 characters: without inner spaces, with 1..LongSlack spaces
\* that end at position max_snippet_chars, with a space right after it.
TruncDocs ==
    {TruncDoc(n, b) :
        n \in (max_snippet_chars - LongSlack)
                  ..(max_snippet_chars + LongSlack + 1),
        b \in {(max_snippet_chars - k + 1)..max_snippet_chars :
                   k \in 0..LongSlack}
              \cup {{max_snippet_chars + 1}}}

\* The marker "se'if 3(alef)".
Marker == SectionWord \o <<32, 51, 40, 1488, 41>>

\* The marker in a first paragraph, and "gil" as the second paragraph, dist
\* characters after the start of the marker.
MarkerBefore(dist) ==
    [id |-> <<67>>,
     content |-> Marker \o <<32>> \o Filler(dist - Len(Marker) - 2, 121)
                 \o <<10>> \o QueryAge]

\* "gil" as the first paragraph, and the marker in a second paragraph,
\* starting gap characters after the end of "gil".
MarkerAfter(gap) ==
    [id |-> <<67>>,
     content |-> QueryAge \o <<10>> \o Filler(gap - 2, 121) \o <<32>>
                 \o Marker]

\* "gil" with no marker anywhere.
MarkerNowhere ==
    [id |-> <<67>>, content |-> Filler(LongSlack, 121) \o <<10>> \o QueryAge]

\* The marker before the paragraph, its start WindowRadius -+ LongSlack
\* characters away; the marker after the paragraph, from wholly inside the
\* window to wholly outside it.
CiteDocs ==
    {MarkerBefore(dist) :
        dist \in (WindowRadius - LongSlack)..(WindowRadius + LongSlack)}
    \cup {MarkerAfter(gap) :
             gap \in (WindowRadius - Len(Marker) - LongSlack)
                         ..(WindowRadius + LongSlack)}
    \cup {MarkerNowhere}

LongDocs == TruncDocs \cup CiteDocs

\* The documents that come second in a list of two: after a long paragraph,
\* a paragraph with a space at position max_snippet_chars; after a document
\* with a marker, one whose marker is outside the window.
SecondTruncDoc == TruncDoc(max_snippet_chars + LongSlack, {max_snippet_chars})
SecondCiteDoc == MarkerBefore(WindowRadius + LongSlack)

LongInputs ==
    {Args(<<QueryAge>>, ds, m) :
        ds \in {<<d>> : d \in LongDocs}
               \cup {<<d, SecondTruncDoc>> : d \in TruncDocs}
               \cup {<<d, SecondCiteDoc>> : d \in CiteDocs},
        m \in 1..MaxPerQuery}

InitLong == InitWith(LongInputs)

SpecLong == InitLong /\ [][Next]_vars

(***************************************************************************)
(* keywords_from_query applied to every short query                        *)
(***************************************************************************)

\* The longest query and the largest min_len.
MaxQueryChars == 5
MaxMinLen == 3

\* gimel, lamed, shin ("shel", of, is a stop-word), the vowel point U+05B4,
\* space and comma.
KeywordAlphabet == {1490, 1500, 1513, 1460, 32, 44}

\* "gil gil bdika": a word twice, then another word.
KeywordExample ==
    <<1490, 1497, 1500, 32, 1490, 1497, 1500, 32, 1489, 1491, 1497, 1511,
      1492>>

KeywordQueries ==
    SeqsOf(KeywordAlphabet, 0, MaxQueryChars) \cup {KeywordExample}

InitKeywords ==
    /\ fn \in {[op |-> "keywords_from_query", query |-> q, min_len |-> m,
                applied |-> FALSE, value |-> <<>>] :
                  q \in KeywordQueries, m \in 0..MaxMinLen}
    /\ args = Args(<<>>, <<>>, 1)
    /\ pc = "idle"
    /\ q_idx = 0
    /\ d_idx = 0
    /\ candidates = <<>>
    /\ results = <<>>
    /\ emitted_for = <<>>
    /\ first_args = args
    /\ first_output = NoOutput
    /\ between = FALSE
    /\ RouterIdle

\* keywords_from_query(query, min_len) is called.
ApplyKeywords ==
    /\ fn.op = "keywords_from_query"
    /\ ~fn.applied
    /\ fn' = [fn EXCEPT !.applied = TRUE,
                        !.value = keywords_from_query(fn.query, fn.min_len)]
    /\ UNCHANGED <<args, pc, q_idx, d_idx, candidates, results, emitted_for,
                   first_args, first_output, between>>
    /\ UNCHANGED router_vars

SpecKeywords == InitKeywords /\ [][ApplyKeywords]_vars

(***************************************************************************)
(* The text functions applied to every short text                          *)
(***************************************************************************)

\* The longest text, the longest normalized segment and the longest keyword
\* list.
MaxTextChars == 5
MaxNormChars == 4
MaxKeywords == 2

\* gimel, full stop, space, line feed, carriage return.
SplitAlphabet == {1490, 46, 32, 10, 13}

\* "alef LF bet LF LF gimel": a line break inside a block, then a blank line;
\* "gimel gimel . space gimel LF CR LF gimel !": sentences and lines.
SplitExamples ==
    {<<1488, 10, 1489, 10, 10, 1490>>,
     <<1490, 1490, 46, 32, 1490, 10, 13, 10, 1490, 33>>}

SplitTexts == SeqsOf(SplitAlphabet, 0, MaxTextChars) \cup SplitExamples

\* gimel, the vowel point U+05B4, full stop, space, line feed, carriage
\* return.
ContentAlphabet == {1490, 1460, 46, 32, 10, 13}

\* The query "gimel gimel".
QueryGG == <<1490, 1490>>

\* The query "gimel gimel, lamed lamed".
QueryGGLL == <<1490, 1490, 44, 32, 1500, 1500>>

\* Contents for QueryGGLL, of paragraphs "g" = "gimel gimel" (score 1),
\* "l" = "lamed lamed" (1), "b" = both (2), "n" = neither (0):
\* n g l (a tie at 1), g b l b (a tie at 2 after a lower score), n n.
TieContents ==
    {<<1488, 10, 1490, 1490, 10, 1500, 1500>>,
     <<1490, 1490, 10, 1490, 1490, 32, 1500, 1500, 10, 1500, 1500, 10,
       1500, 1500, 32, 1490, 1490>>,
     <<1488, 10, 1489>>}

\* The documents best_snippet_for_query_in_doc is applied to: CriteriaDocument
\* refuses a blank content.
SnippetInputs ==
    {[query |-> QueryGG, doc |-> [id |-> <<68>>, content |-> c]] :
        c \in {t \in SeqsOf(ContentAlphabet, 1, MaxTextChars) :
                  ~IsBlankStr(t)}}
    \cup {[query |-> QueryGGLL, doc |-> [id |-> <<68>>, content |-> c]] :
             c \in TieContents}
    \cup {[query |-> q, doc |-> d] : q \in QueryPalette, d \in DocPalette}

\* gimel, lamed, space.
NormAlphabet == {1490, 1500, 32}

\* Keywords: "gimel", "gimel lamed", "lamed gimel" and the empty string.
KeywordPalette == {<<1490>>, <<1490, 1500>>, <<1500, 1490>>, <<>>}

\* Normalized segments and keyword lists.
ScoreInputs ==
    {[text_norm |-> t, keywords |-> k] :
        t \in {x \in SeqsOf(NormAlphabet, 0, MaxNormChars) :
                  normalize_hebrew(x) = x},
        k \in SeqsOf(KeywordPalette, 0, MaxKeywords)}

InitText ==
    /\ fn \in {[op |-> o, text |-> t, applied |-> FALSE, value |-> <<>>] :
                  o \in {"split_to_paragraphs", "split_to_sentences"},
                  t \in SplitTexts}
              \cup {[op |-> "match_score", text_norm |-> i.text_norm,
                     keywords |-> i.keywords, applied |-> FALSE,
                     value |-> 0] : i \in ScoreInputs}
              \cup {[op |-> "best_snippet_for_query_in_doc",
                     query |-> i.query, doc |-> i.doc, applied |-> FALSE,
                     best_para |-> None, best_sent |-> None,
                     value |-> NotFound] : i \in SnippetInputs}
    /\ args = Args(<<>>, <<>>, 1)
    /\ pc = "idle"
    /\ q_idx = 0
    /\ d_idx = 0
    /\ candidates = <<>>
    /\ results = <<>>
    /\ emitted_for = <<>>
    /\ first_args = args
    /\ first_output = NoOutput
    /\ between = FALSE
    /\ RouterIdle

\* split_to_paragraphs(text) is called.
ApplyParagraphs ==
    /\ fn.op = "split_to_paragraphs"
    /\ ~fn.applied
    /\ fn' = [fn EXCEPT !.applied = TRUE,
                        !.value = split_to_paragraphs(fn.text)]
    /\ UNCHANGED <<args, pc, q_idx, d_idx, candidates, results, emitted_for,
                   first_args, first_output, between>>
    /\ UNCHANGED router_vars

\* split_to_sentences(text) is called.
ApplySentences ==
    /\ fn.op = "split_to_sentences"
    /\ ~fn.applied
    /\ fn' = [fn EXCEPT !.applied = TRUE,
                        !.value = split_to_sentences(fn.text)]
    /\ UNCHANGED <<args, pc, q_idx, d_idx, candidates, results, emitted_for,
                   first_args, first_output, between>>
    /\ UNCHANGED router_vars

\* match_score(text_norm, keywords) is called.
ApplyMatchScore ==
    /\ fn.op = "match_score"
    /\ ~fn.applied
    /\ fn' = [fn EXCEPT !.applied = TRUE,
                        !.value = match_score(fn.text_norm, fn.keywords)]
    /\ UNCHANGED <<args, pc, q_idx, d_idx, candidates, results, emitted_for,
                   first_args, first_output, between>>
    /\ UNCHANGED router_vars

\* best_snippet_for_query_in_doc(query, doc) is called; best_para and
\* best_sent are its locals when it returns.
ApplySnippet ==
    /\ fn.op = "best_snippet_for_query_in_doc"
    /\ ~fn.applied
    /\ LET kws == keywords_from_query(fn.query, DefaultMinLen)
           para == BestParagraph(fn.doc.content, kws)
       IN  fn' = [fn EXCEPT
                     !.applied = TRUE,
                     !.best_para = para.seg,
                     !.best_sent = BestSentence(fn.doc.content, kws, para).seg,
                     !.value = best_snippet_for_query_in_doc(
                                   fn.query, fn.doc, max_snippet_chars)]
    /\ UNCHANGED <<args, pc, q_idx, d_idx, candidates, results, emitted_for,
                   first_args, first_output, between>>
    /\ UNCHANGED router_vars

NextText ==
    \/ ApplyParagraphs
    \/ ApplySentences
    \/ ApplyMatchScore
    \/ ApplySnippet

SpecText == InitText /\ [][NextText]_vars

(***************************************************************************)
(* route (Router.py): the language-model call and what route returns       *)
(***************************************************************************)

\* ALLOWED_CATEGORIES, in the order of the source.
ALLOWED_CATEGORIES == <<
    <<1504, 1497, 1497, 1491, 1493, 1514>>,
    <<1504, 1499, 1493, 1514, 32, 1499, 1500, 1500, 1497, 1514>>,
    <<1514, 1490, 32, 1504, 1499, 1492>>,
    <<1514, 1488, 1493, 1504, 1514, 32, 1506, 1489, 1493, 1491, 1492>>,
    <<1514, 1488, 1493, 1504, 1514, 32, 1491, 1512, 1499, 1497, 1501>>,
    <<1513, 1497, 1512, 1493, 1514, 1497, 1501, 32, 1502, 1497, 1493,
      1495, 1491, 1497, 1501>>,
    <<1508, 1496, 1493, 1512, 32, 1502, 1505, 32, 1492, 1499, 1504,
      1505, 1492>>,
    <<1505, 1497, 1506, 1493, 1491, 32, 1495, 1489, 1512, 1514, 32,
      1489, 1497, 1496, 1493, 1495>>,
    <<1505, 1497, 1506, 1493, 1491, 32, 1489, 1497, 1496, 1493, 1495,
      32, 1500, 1488, 1493, 1502, 1497>>,
    <<1504, 1508, 1490, 1506, 1497, 32, 1508, 1506, 1493, 1500, 1493,
      1514, 32, 1488, 1497, 1489, 1492>>,
    <<1502, 1513, 1512, 1491, 32, 1492, 1489, 1497, 1496, 1495, 1493,
      1503>>,
    <<1502, 1495, 1500, 1514, 32, 1502, 1511, 1510, 1493, 1506>>,
    <<1495, 1489, 1512, 1493, 1514, 32, 1489, 1497, 1496, 1493, 1495>> >>

\* The default "0.40" of MIN_CONFIDENCE; confidences are counted in
\* hundredths.
DefaultMinConfidence == 40

\* float(os.getenv("ROUTER_MIN_CONFIDENCE", "0.40")) for a setting that is a
\* number or NaN, or that is not there.
min_confidence_of(setting) ==
    IF setting.kind = "unset"
    THEN [kind |-> "number", value |-> DefaultMinConfidence]
    ELSE setting

\* FALLBACK_CATEGORIES: "lo mesuvag" (not classified).
FALLBACK_CATEGORIES == <<<<1500, 1488, 32, 1502, 1505, 1493, 1493, 1490>>>>

\* x in seq
InSeq(x, seq) == \E i \in 1..Len(seq) : seq[i] = x

\* _normalize_allowed_name: the stripped name if it is an allowed category,
\* None otherwise, also for a value that is not a string.
normalize_allowed_name(is_str, name) ==
    IF ~is_str THEN None
    ELSE IF InSeq(Strip(name), ALLOWED_CATEGORIES) THEN Strip(name)
    ELSE None

\* A confidence brought into [0, 1].
Clamp(conf) == IF conf < 0 THEN 0 ELSE IF conf > 100 THEN 100 ELSE conf

\* The loop "for item in data['scored']" over the first n items: the list
\* parsed, or raised when ScoredCategory refuses a confidence (NaN passes
\* both bounds tests and fails the model's ge = 0.0).
RECURSIVE ParseScored(_, _)
ParseScored(items, n) ==
    IF n = 0 THEN [raised |-> FALSE, parsed |-> <<>>]
    ELSE LET prev == ParseScored(items, n - 1)
             item == items[n]
             name == normalize_allowed_name(item.name_is_str, item.name)
         IN  IF prev.raised \/ ~item.is_dict THEN prev
             ELSE IF name = None \/ item.conf_kind = "other" THEN prev
             ELSE IF \E k \in 1..Len(prev.parsed) : prev.parsed[k].name = name
                  THEN prev
             ELSE IF item.conf_kind = "nan"
                  THEN [raised |-> TRUE, parsed |-> prev.parsed]
             ELSE [raised |-> FALSE,
                   parsed |-> Append(prev.parsed,
                                  [name |-> name,
                                   confidence |-> Clamp(item.confidence)])]

\* The allowed categories that parsed lacks, with confidence 0.0.
MissingScored(parsed) ==
    LET missing == SelectSeq(ALLOWED_CATEGORIES, LAMBDA c :
                       \A k \in 1..Len(parsed) : parsed[k].name # c)
    IN  [k \in 1..Len(missing) |-> [name |-> missing[k], confidence |-> 0]]

\* _extract_scored_from_json on the parsed JSON value data.
extract_scored_from_json(data) ==
    IF data.is_dict /\ data.scored_kind = "list"
    THEN LET r == ParseScored(data.scored, Len(data.scored))
         IN  IF r.raised THEN [raised |-> TRUE, scored |-> <<>>]
             ELSE [raised |-> FALSE,
                   scored |-> r.parsed \o MissingScored(r.parsed)]
    ELSE IF data.is_dict /\ data.categories_kind = "list"
    THEN LET chosen == {normalize_allowed_name(TRUE, data.categories[k].name) :
                           k \in {j \in 1..Len(data.categories) :
                                     data.categories[j].is_str}} \ {None}
         IN  [raised |-> FALSE,
              scored |-> [k \in 1..Len(ALLOWED_CATEGORIES) |->
                            [name |-> ALLOWED_CATEGORIES[k],
                             confidence |->
                                 IF ALLOWED_CATEGORIES[k] \in chosen
                                 THEN 100 ELSE 0]]]
    ELSE [raised |-> FALSE, scored |-> <<>>]

\* _call_llm_for_scores: [] without a client, on an API error, on an empty
\* reply, on a reply that is not JSON and on any other exception.
call_llm_for_scores(reply) ==
    IF reply.kind # "json" THEN <<>>
    ELSE IF extract_scored_from_json(reply.data).raised THEN <<>>
    ELSE extract_scored_from_json(reply.data).scored

\* _filter_by_confidence: the names at or above min_conf, in order, once.
RECURSIVE filter_by_confidence(_, _)
filter_by_confidence(sc, min_conf) ==
    IF sc = <<>> THEN <<>>
    ELSE LET result == filter_by_confidence(SubSeq(sc, 1, Len(sc) - 1),
                                            min_conf)
             last == sc[Len(sc)]
         IN  IF last.confidence >= min_conf /\ ~InSeq(last.name, result)
             THEN Append(result, last.name)
             ELSE result

\* The longest list of a reply.
MaxItems == 2

\* Document texts: a Hebrew word, a text with spaces and a line feed around
\* a word, a blank text.
DocumentTexts ==
    {<<1496, 1511, 1505, 1496>>, <<32, 1496, 1511, 10, 1505, 1496, 32>>,
     <<32, 10>>}

\* Names of a reply: an allowed category, an allowed category with spaces
\* around it, "akher" (other), and a value that is not a string.
NamePalette ==
    {[is_str |-> TRUE, name |-> ALLOWED_CATEGORIES[1]],
     [is_str |-> TRUE, name |-> <<32>> \o ALLOWED_CATEGORIES[3] \o <<32>>],
     [is_str |-> TRUE, name |-> <<1488, 1495, 1512>>],
     [is_str |-> FALSE, name |-> <<>>]}

\* Confidences of a reply: numbers below 0, below and at the default
\* MIN_CONFIDENCE, 0.9 and above 1, NaN, and a value that is not a number.
ConfidencePalette ==
    {[kind |-> "number", value |-> v] :
        v \in {-10, DefaultMinConfidence - 1, DefaultMinConfidence, 90, 150}}
    \cup {[kind |-> "nan", value |-> 0], [kind |-> "other", value |-> 0]}

\* The items of a "scored" list: objects with a name and a confidence, and
\* a value that is not an object.
ScoredItems ==
    {[is_dict |-> TRUE, name_is_str |-> n.is_str, name |-> n.name,
      conf_kind |-> c.kind, confidence |-> c.value] :
        n \in NamePalette, c \in ConfidencePalette}
    \cup {[is_dict |-> FALSE, name_is_str |-> FALSE, name |-> <<>>,
           conf_kind |-> "other", confidence |-> 0]}

JsonValue(is_dict, scored_kind, scored_items, categories_kind, cats) ==
    [is_dict |-> is_dict, scored_kind |-> scored_kind,
     scored |-> scored_items, categories_kind |-> categories_kind,
     categories |-> cats]

\* The JSON values of a reply: a value that is not an object; an object
\* with a "scored" list; an object whose "scored" is absent or not a list,
\* with "categories" absent, not a list, or a list.
JsonValues ==
    {JsonValue(FALSE, "absent", <<>>, "absent", <<>>)}
    \cup {JsonValue(TRUE, "list", items, "absent", <<>>) :
             items \in SeqsOf(ScoredItems, 0, MaxItems)}
    \cup {JsonValue(TRUE, sk, <<>>, ck, <<>>) :
             sk \in {"absent", "not_list"}, ck \in {"absent", "not_list"}}
    \cup {JsonValue(TRUE, sk, <<>>, "list", cats) :
             sk \in {"absent", "not_list"},
             cats \in SeqsOf(NamePalette, 0, MaxItems)}

\* The environment Router.py is imported in: ROUTER_MIN_CONFIDENCE not set,
\* set to 0.0, to 0.9, to "nan", or to a text float() refuses;
\* OPENAI_API_KEY set to a non-empty text or not.
Environments ==
    {[ROUTER_MIN_CONFIDENCE |-> s, OPENAI_API_KEY |-> k] :
        s \in {[kind |-> "unset"], [kind |-> "number", value |-> 0],
               [kind |-> "number", value |-> 90], [kind |-> "nan"],
               [kind |-> "invalid"]},
        k \in BOOLEAN}

\* No JSON value.
NoJson == JsonValue(FALSE, "absent", <<>>, "absent", <<>>)

\* The outcomes of a request to the language model: an API error, a
\* response without choices, an empty content, a content that is not JSON,
\* a JSON content.
LlmOutcomes ==
    {[kind |-> k, data |-> NoJson] :
        k \in {"api_error", "no_choices", "empty_content", "unparsable"}}
    \cup {[kind |-> "json", data |-> d] : d \in JsonValues}

InitRouter ==
    /\ router_pc = "import"
    /\ environ \in Environments
    /\ MIN_CONFIDENCE = Unbound
    /\ client = FALSE
    /\ payload \in DocumentTexts
    /\ llm = NoReply
    /\ scored = <<>>
    /\ routed = NoRouted
    /\ args = Args(<<>>, <<>>, 1)
    /\ pc = "idle"
    /\ q_idx = 0
    /\ d_idx = 0
    /\ candidates = <<>>
    /\ results = <<>>
    /\ emitted_for = <<>>
    /\ first_args = args
    /\ first_output = NoOutput
    /\ between = FALSE
    /\ fn = NoFn

\* import Router: MIN_CONFIDENCE and _client are bound from the environment;
\* float() raises ValueError on a setting that is not a number, and the
\* import fails.
RouterImport ==
    /\ router_pc = "import"
    /\ IF environ.ROUTER_MIN_CONFIDENCE.kind = "invalid"
       THEN /\ router_pc' = "import_error"
            /\ UNCHANGED <<MIN_CONFIDENCE, client>>
       ELSE /\ MIN_CONFIDENCE' =
                   min_confidence_of(environ.ROUTER_MIN_CONFIDENCE)
            /\ client' = environ.OPENAI_API_KEY
            /\ router_pc' = "construct"
    /\ UNCHANGED <<environ, payload, llm, scored, routed>>
    /\ UNCHANGED <<args, pc, q_idx, d_idx, candidates, results, emitted_for,
                   first_args, first_output, between, fn>>

\* RouterInput(document_text=...): a blank text is refused.
RouterConstruct ==
    /\ router_pc = "construct"
    /\ router_pc' = IF IsBlankStr(payload) THEN "rejected" ELSE "route"
    /\ UNCHANGED <<environ, MIN_CONFIDENCE, client, payload, llm, scored,
                   routed>>
    /\ UNCHANGED <<args, pc, q_idx, d_idx, candidates, results, emitted_for,
                   first_args, first_output, between, fn>>

\* route calls _call_llm_for_scores(document_text): without a client it
\* returns [] at once; with one the request is sent and the call waits for
\* the language model.
CallLlm ==
    /\ router_pc = "route"
    /\ IF client
       THEN /\ router_pc' = "llm"
            /\ UNCHANGED <<llm, scored>>
       ELSE /\ llm' = [kind |-> "no_client", data |-> NoJson]
            /\ scored' = call_llm_for_scores(llm')
            /\ router_pc' = "scored"
    /\ UNCHANGED <<environ, MIN_CONFIDENCE, client, payload, routed>>
    /\ UNCHANGED <<args, pc, q_idx, d_idx, candidates, results, emitted_for,
                   first_args, first_output, between, fn>>

\* The wait ends, with a response or an exception (the timeout of 60
\* seconds is an API error), and _call_llm_for_scores returns what it makes
\* of it to route's scored.
LlmReply ==
    /\ router_pc = "llm"
    /\ \E reply \in LlmOutcomes :
           /\ llm' = reply
           /\ scored' = call_llm_for_scores(reply)
    /\ router_pc' = "scored"
    /\ UNCHANGED <<environ, MIN_CONFIDENCE, client, payload, routed>>
    /\ UNCHANGED <<args, pc, q_idx, d_idx, candidates, results, emitted_for,
                   first_args, first_output, between, fn>>

\* if not scored: the fallback output.
RouteFallback ==
    /\ router_pc = "scored"
    /\ scored = <<>>
    /\ routed' = [returned |-> TRUE, categories |-> FALLBACK_CATEGORIES,
                  scored |-> <<>>, document_text |-> payload]
    /\ router_pc' = "returned"
    /\ UNCHANGED <<environ, MIN_CONFIDENCE, client, payload, llm, scored>>
    /\ UNCHANGED <<args, pc, q_idx, d_idx, candidates, results, emitted_for,
                   first_args, first_output, between, fn>>

\* Otherwise the categories at or above MIN_CONFIDENCE with the scored
\* list; no confidence is at or above NaN.
RouteReturn ==
    /\ router_pc = "scored"
    /\ scored # <<>>
    /\ routed' = [returned |-> TRUE,
                  categories |->
                      IF MIN_CONFIDENCE.kind = "nan" THEN <<>>
                      ELSE filter_by_confidence(scored, MIN_CONFIDENCE.value),
                  scored |-> scored, document_text |-> payload]
    /\ router_pc' = "returned"
    /\ UNCHANGED <<environ, MIN_CONFIDENCE, client, payload, llm, scored>>
    /\ UNCHANGED <<args, pc, q_idx, d_idx, candidates, results, emitted_for,
                   first_args, first_output, between, fn>>

NextRouter ==
    \/ RouterImport
    \/ RouterConstruct
    \/ CallLlm
    \/ LlmReply
    \/ RouteFallback
    \/ RouteReturn

SpecRouter == InitRouter /\ [][NextRouter]_vars

(***************************************************************************)
(* The planning stage (Planner.py): normalize_category and build_plan      *)
(***************************************************************************)

\* CanonicalCategory: each member is its value.
NAKHUT_KLALIT ==
    <<1504, 1499, 1493, 1514, 32, 1499, 1500, 1500, 1497, 1514>>
GAMALAT_SIUD ==
    <<1490, 1502, 1500, 1514, 32, 1505, 1497, 1506, 1493, 1491>>
NAYADUT ==
    <<1504, 1497, 1497, 1491, 1493, 1514>>
TAG_NECHET ==
    <<1514, 1490, 32, 1504, 1499, 1492>>
TEUNAT_AVODA ==
    <<1514, 1488, 1493, 1504, 1514, 32, 1506, 1489, 1493, 1491, 1492>>
TEUNAT_DRACHIM ==
    <<1514, 1488, 1493, 1504, 1514, 32, 1491, 1512, 1499, 1497, 1501>>
SHERUTIM_MEYUCHADIM ==
    <<1513, 1497, 1512, 1493, 1514, 1497, 1501, 32, 1502, 1497, 1493, 1495,
      1491, 1497, 1501>>
PTOR_MAS ==
    <<1508, 1496, 1493, 1512, 32, 1502, 1502, 1505, 32, 1492, 1499, 1504,
      1505, 1492>>
NIFGAE_PIGUA ==
    <<1504, 1508, 1490, 1506, 1497, 32, 1508, 1506, 1493, 1500, 1493, 1514,
      32, 1488, 1497, 1489, 1492>>
MISRAD_HABITACHON ==
    <<1502, 1513, 1512, 1491, 32, 1492, 1489, 1497, 1496, 1495, 1493, 1503>>
MACHALAT_MIKZOA ==
    <<1502, 1495, 1500, 1514, 32, 1502, 1511, 1510, 1493, 1506>>

\* CATEGORY_ALIASES, in the order of the source (the order the soft match
\* goes through).
CATEGORY_ALIASES == <<
    [alias |->
        <<1505, 1497, 1506, 1493, 1491>>,
     can |-> GAMALAT_SIUD],
    [alias |->
        <<1505, 1497, 1506, 1493, 1491, 32, 1489, 1497, 1496, 1493, 1495,
          32, 1500, 1488, 1493, 1502, 1497>>,
     can |-> GAMALAT_SIUD],
    [alias |->
        <<1490, 1502, 1500, 1514, 32, 1505, 1497, 1506, 1493, 1491>>,
     can |-> GAMALAT_SIUD],
    [alias |->
        <<1504, 1499, 1493, 1514, 32, 1499, 1500, 1500, 1497, 1514>>,
     can |-> NAKHUT_KLALIT],
    [alias |->
        <<1511, 1510, 1489, 1514, 32, 1504, 1499, 1493, 1514>>,
     can |-> NAKHUT_KLALIT],
    [alias |->
        <<1504, 1497, 1497, 1491, 1493, 1514>>,
     can |-> NAYADUT],
    [alias |->
        <<1514, 1490, 32, 1504, 1499, 1492>>,
     can |-> TAG_NECHET],
    [alias |->
        <<1514, 1488, 1493, 1504, 1514, 32, 1506, 1489, 1493, 1491, 1492>>,
     can |-> TEUNAT_AVODA],
    [alias |->
        <<1514, 1488, 1493, 1504, 1514, 32, 1491, 1512, 1499, 1497, 1501>>,
     can |-> TEUNAT_DRACHIM],
    [alias |->
        <<1504, 1508, 1490, 1506, 1497, 32, 1508, 1506, 1493, 1500, 1493,
          1514, 32, 1488, 1497, 1489, 1492>>,
     can |-> NIFGAE_PIGUA],
    [alias |->
        <<1502, 1513, 1512, 1491, 32, 1492, 1489, 1497, 1496, 1495, 1493,
          1503>>,
     can |-> MISRAD_HABITACHON],
    [alias |->
        <<1513, 1497, 1512, 1493, 1514, 1497, 1501, 32, 1502, 1497, 1493,
          1495, 1491, 1497, 1501>>,
     can |-> SHERUTIM_MEYUCHADIM],
    [alias |->
        <<1513, 1497, 1512, 1493, 1514, 1497, 1501, 32, 1502, 1497, 1493,
          1495, 1491, 1497, 1501, 32, 40, 1505, 1497, 1506, 1493, 1491, 32,
          1500, 1508, 1504, 1497, 32, 1505, 1497, 1506, 1493, 1491, 41>>,
     can |-> SHERUTIM_MEYUCHADIM],
    [alias |->
        <<1508, 1496, 1493, 1512, 32, 1502, 1505, 32, 1492, 1499, 1504,
          1505, 1492>>,
     can |-> PTOR_MAS],
    [alias |->
        <<1502, 1495, 1500, 1514, 32, 1502, 1511, 1510, 1493, 1506>>,
     can |-> MACHALAT_MIKZOA] >>

\* CRITERIA_TEMPLATES
CRITERIA_TEMPLATES == <<
    [category |-> NAKHUT_KLALIT,
     queries |-> <<
        <<1504, 1499, 1493, 1514, 32, 1499, 1500, 1500, 1497, 1514, 32,
          8211, 32, 1514, 1504, 1488, 1497, 32, 1494, 1499, 1488, 1493,
          1514, 32, 1489, 1505, 1497, 1505, 1497, 1497, 1501>>,
        <<1504, 1499, 1493, 1514, 32, 1499, 1500, 1500, 1497, 1514, 32,
          8211, 32, 1488, 1495, 1493, 1494, 32, 1504, 1499, 1493, 1514, 32,
          1512, 1508, 1493, 1488, 1497, 1514, 32, 1502, 1497, 1504, 1497,
          1502, 1500, 1497>>,
        <<1504, 1499, 1493, 1514, 32, 1499, 1500, 1500, 1497, 1514, 32,
          8211, 32, 1499, 1493, 1513, 1512, 32, 1492, 1513, 1514, 1499,
          1512, 1493, 1514, 32, 1493, 1506, 1489, 1493, 1491, 1492>>,
        <<1504, 1499, 1493, 1514, 32, 1499, 1500, 1500, 1497, 1514, 32,
          8211, 32, 1514, 1511, 1493, 1508, 1514, 32, 1488, 1499, 1513,
          1512, 1492, 47, 1491, 1502, 1497, 32, 1489, 1497, 1496, 1493, 1495>>,
        <<1504, 1499, 1493, 1514, 32, 1499, 1500, 1500, 1497, 1514, 32,
          8211, 32, 1490, 1497, 1500, 32, 1493, 1494, 1499, 1488, 1493,
          1514, 32, 40, 1500, 1508, 1504, 1497, 47, 1488, 1495, 1512, 1497,
          32, 1490, 1497, 1500, 32, 1508, 1512, 1497, 1513, 1492, 41>>,
        <<1504, 1499, 1493, 1514, 32, 1499, 1500, 1500, 1497, 1514, 32,
          8211, 32, 1495, 1512, 1497, 1490, 1497, 1501, 32, 1493, 1492,
          1493, 1512, 1488, 1493, 1514, 32, 1502, 1506, 1489, 1512>>,
        <<1504, 1499, 1493, 1514, 32, 1499, 1500, 1500, 1497, 1514, 32,
          8211, 32, 1502, 1505, 1502, 1499, 1497, 1501, 32, 1512, 1508,
          1493, 1488, 1497, 1497, 1501, 32, 1504, 1491, 1512, 1513, 1497,
          1501>> >>],
    [category |-> GAMALAT_SIUD,
     queries |-> <<
        <<1490, 1502, 1500, 1514, 32, 1505, 1497, 1506, 1493, 1491, 32,
          8211, 32, 1502, 1489, 1495, 1503, 32, 1514, 1500, 1493, 1514, 32,
          40, 65, 68, 76, 41>>,
        <<1490, 1502, 1500, 1514, 32, 1505, 1497, 1506, 1493, 1491, 32,
          8211, 32, 1502, 1489, 1495, 1503, 32, 1492, 1499, 1504, 1505, 1492>>,
        <<1490, 1502, 1500, 1514, 32, 1505, 1497, 1506, 1493, 1491, 32,
          8211, 32, 1490, 1497, 1500, 32, 1494, 1499, 1488, 1493, 1514>>,
        <<1490, 1502, 1500, 1514, 32, 1505, 1497, 1506, 1493, 1491, 32,
          8211, 32, 1491, 1512, 1490, 1493, 1514, 32, 1494, 1499, 1488,
          1493, 1514, 32, 1493, 1492, 1490, 1491, 1512, 1493, 1514>>,
        <<1490, 1502, 1500, 1514, 32, 1505, 1497, 1506, 1493, 1491, 32,
          8211, 32, 1502, 1505, 1502, 1499, 1497, 1501, 32, 1493, 1488,
          1497, 1513, 1493, 1512, 1497, 1501, 32, 1504, 1491, 1512, 1513,
          1497, 1501>> >>],
    [category |-> NAYADUT,
     queries |-> <<
        <<1504, 1497, 1497, 1491, 1493, 1514, 32, 8211, 32, 1511, 1512,
          1497, 1496, 1512, 1497, 1493, 1504, 1497, 32, 1494, 1499, 1488,
          1493, 1514, 32, 1489, 1505, 1497, 1505, 1497, 1497, 1501>>,
        <<1504, 1497, 1497, 1491, 1493, 1514, 32, 8211, 32, 1488, 1495,
          1493, 1494, 32, 1502, 1493, 1490, 1489, 1500, 1493, 1514, 32,
          1489, 1504, 1497, 1497, 1491, 1493, 1514, 47, 1489, 1491, 1497,
          1511, 1514, 32, 1493, 1506, 1491, 1492>>,
        <<1504, 1497, 1497, 1491, 1493, 1514, 32, 8211, 32, 1512, 1499,
          1489, 32, 1493, 1512, 1497, 1513, 1493, 1501, 32, 1489, 1506,
          1500, 1493, 1514>>,
        <<1504, 1497, 1497, 1491, 1493, 1514, 32, 8211, 32, 1492, 1496,
          1489, 1493, 1514, 32, 1493, 1514, 1504, 1488, 1497, 1501, 32,
          1504, 1500, 1493, 1493, 1497, 1501>> >>],
    [category |-> TAG_NECHET,
     queries |-> <<
        <<1514, 1490, 32, 1504, 1499, 1492, 32, 8211, 32, 1514, 1504, 1488,
          1497, 32, 1494, 1499, 1488, 1493, 1514, 32, 1512, 1508, 1493,
          1488, 1497, 1497, 1501>>,
        <<1514, 1490, 32, 1504, 1499, 1492, 32, 8211, 32, 1492, 1490, 1489,
          1500, 1514, 32, 1504, 1497, 1497, 1491, 1493, 1514, 32, 1493,
          1502, 1513, 1502, 1506, 1493, 1497, 1493, 1514, 32, 1512, 1508,
          1493, 1488, 1497, 1493, 1514>>,
        <<1514, 1490, 32, 1504, 1499, 1492, 32, 8211, 32, 1502, 1505, 1493,
          1499, 1504, 1493, 1514, 32, 1489, 1512, 1497, 1488, 1493, 1514,
          1497, 1514, 32, 1489, 1492, 1500, 1497, 1499, 1492, 47, 1504,
          1497, 1497, 1491, 1493, 1514>>,
        <<1514, 1490, 32, 1504, 1499, 1492, 32, 8211, 32, 1502, 1505, 1502,
          1499, 1497, 1501, 32, 1512, 1508, 1493, 1488, 1497, 1497, 1501,
          32, 1493, 1488, 1497, 1513, 1493, 1512, 1497, 1501>> >>],
    [category |-> TEUNAT_AVODA,
     queries |-> <<
        <<1514, 1488, 1493, 1504, 1514, 32, 1506, 1489, 1493, 1491, 1492,
          32, 8211, 32, 1488, 1497, 1512, 1493, 1506, 32, 1514, 1493, 1498,
          32, 1499, 1491, 1497, 32, 1493, 1506, 1511, 1489, 32, 1492, 1506,
          1489, 1493, 1491, 1492>>,
        <<1514, 1488, 1493, 1504, 1514, 32, 1506, 1489, 1493, 1491, 1492,
          32, 8211, 32, 1511, 1513, 1512, 32, 1505, 1497, 1489, 1514, 1497,
          32, 1512, 1508, 1493, 1488, 1497>>,
        <<1514, 1488, 1493, 1504, 1514, 32, 1506, 1489, 1493, 1491, 1492,
          32, 8211, 32, 1491, 1497, 1493, 1493, 1495, 32, 1493, 1514, 1489,
          1497, 1506, 1492, 32, 1489, 1502, 1493, 1506, 1491>>,
        <<1514, 1488, 1493, 1504, 1514, 32, 1506, 1489, 1493, 1491, 1492,
          32, 8211, 32, 1488, 1495, 1493, 1494, 32, 1504, 1499, 1493, 1514,
          32, 1493, 1504, 1494, 1511, 32, 1514, 1508, 1511, 1493, 1491, 1497>> >>],
    [category |-> TEUNAT_DRACHIM,
     queries |-> <<
        <<1514, 1488, 1493, 1504, 1514, 32, 1491, 1512, 1499, 1497, 1501,
          32, 8211, 32, 1492, 1490, 1491, 1512, 1514, 32, 1514, 1488, 1493,
          1504, 1514, 32, 1491, 1512, 1499, 1497, 1501>>,
        <<1514, 1488, 1493, 1504, 1514, 32, 1491, 1512, 1499, 1497, 1501,
          32, 8211, 32, 1511, 1513, 1512, 32, 1505, 1497, 1489, 1514, 1497,
          32, 1489, 1497, 1503, 32, 1492, 1514, 1488, 1493, 1504, 1492, 32,
          1500, 1504, 1494, 1511>>,
        <<1514, 1488, 1493, 1504, 1514, 32, 1491, 1512, 1499, 1497, 1501,
          32, 8211, 32, 1508, 1493, 1500, 1497, 1505, 1514, 32, 1489, 1497,
          1496, 1493, 1495, 32, 1495, 1493, 1489, 1492, 32, 1493, 1514,
          1504, 1488, 1497, 1501>>,
        <<1514, 1488, 1493, 1504, 1514, 32, 1491, 1512, 1499, 1497, 1501,
          32, 8211, 32, 1502, 1505, 1502, 1499, 1497, 1501, 32, 1512, 1508,
          1493, 1488, 1497, 1497, 1501, 32, 1493, 1491, 1497, 1493, 1493,
          1495, 1497, 1501>> >>],
    [category |-> SHERUTIM_MEYUCHADIM,
     queries |-> <<
        <<1513, 1497, 1512, 1493, 1514, 1497, 1501, 32, 1502, 1497, 1493,
          1495, 1491, 1497, 1501, 32, 8211, 32, 1511, 1512, 1497, 1496,
          1512, 1497, 1493, 1504, 1497, 32, 1514, 1500, 1493, 1514, 32,
          1493, 1505, 1497, 1506, 1493, 1491, 1497, 1493, 1514>>,
        <<1513, 1497, 1512, 1493, 1514, 1497, 1501, 32, 1502, 1497, 1493,
          1495, 1491, 1497, 1501, 32, 8211, 32, 1489, 1491, 1497, 1511,
          1514, 32, 1514, 1508, 1511, 1493, 1491, 32, 1497, 1493, 1502,
          1497, 1493, 1502, 1497, 32, 40, 65, 68, 76, 47, 73, 65, 68, 76, 41>>,
        <<1513, 1497, 1512, 1493, 1514, 1497, 1501, 32, 1502, 1497, 1493,
          1495, 1491, 1497, 1501, 32, 8211, 32, 1490, 1497, 1500, 47, 1505,
          1496, 1496, 1493, 1505, 32, 1514, 1506, 1505, 1493, 1511, 1514,
          1497>>,
        <<1513, 1497, 1512, 1493, 1514, 1497, 1501, 32, 1502, 1497, 1493,
          1495, 1491, 1497, 1501, 32, 8211, 32, 1502, 1505, 1502, 1499,
          1497, 1501, 32, 1504, 1491, 1512, 1513, 1497, 1501>> >>],
    [category |-> PTOR_MAS,
     queries |-> <<
        <<1508, 1496, 1493, 1512, 32, 1502, 1502, 1505, 32, 1492, 1499,
          1504, 1505, 1492, 32, 8211, 32, 1488, 1495, 1493, 1494, 1497, 32,
          1504, 1499, 1493, 1514, 47, 1506, 1497, 1493, 1493, 1512, 1493,
          1503>>,
        <<1508, 1496, 1493, 1512, 32, 1502, 1502, 1505, 32, 1492, 1499,
          1504, 1505, 1492, 32, 8211, 32, 1493, 1506, 1491, 1493, 1514, 32,
          1512, 1508, 1493, 1488, 1497, 1493, 1514>>,
        <<1508, 1496, 1493, 1512, 32, 1502, 1502, 1505, 32, 1492, 1499,
          1504, 1505, 1492, 32, 8211, 32, 1514, 1511, 1493, 1508, 1514, 32,
          1494, 1499, 1488, 1493, 1514, 32, 1493, 1492, 1495, 1500, 1492>>,
        <<1508, 1496, 1493, 1512, 32, 1502, 1502, 1505, 32, 1492, 1499,
          1504, 1505, 1492, 32, 8211, 32, 1502, 1505, 1502, 1499, 1497,
          1501, 32, 1493, 1488, 1497, 1513, 1493, 1512, 1497, 1501>> >>],
    [category |-> NIFGAE_PIGUA,
     queries |-> <<
        <<1504, 1508, 1490, 1506, 1497, 32, 1508, 1506, 1493, 1500, 1493,
          1514, 32, 1488, 1497, 1489, 1492, 32, 8211, 32, 1492, 1490, 1491,
          1512, 1514, 32, 1508, 1490, 1497, 1506, 1492, 32, 1502, 1494,
          1499, 1492>>,
        <<1504, 1508, 1490, 1506, 1497, 32, 1508, 1506, 1493, 1500, 1493,
          1514, 32, 1488, 1497, 1489, 1492, 32, 8211, 32, 1492, 1499, 1512,
          1492, 32, 1493, 1490, 1493, 1507, 32, 1502, 1496, 1508, 1500>>,
        <<1504, 1508, 1490, 1506, 1497, 32, 1508, 1506, 1493, 1500, 1493,
          1514, 32, 1488, 1497, 1489, 1492, 32, 8211, 32, 1511, 1513, 1512,
          32, 1505, 1497, 1489, 1514, 1497, 32, 1493, 1504, 1494, 1511>>,
        <<1504, 1508, 1490, 1506, 1497, 32, 1508, 1506, 1493, 1500, 1493,
          1514, 32, 1488, 1497, 1489, 1492, 32, 8211, 32, 1502, 1505, 1502,
          1499, 1497, 1501, 32, 1504, 1491, 1512, 1513, 1497, 1501>> >>],
    [category |-> MISRAD_HABITACHON,
     queries |-> <<
        <<1502, 1513, 1512, 1491, 32, 1492, 1489, 1497, 1496, 1495, 1493,
          1503, 32, 8211, 32, 1492, 1499, 1512, 1492, 32, 1489, 1504, 1499,
          1493, 1514, 47, 1508, 1490, 1497, 1506, 1492, 32, 1489, 1513,
          1497, 1512, 1493, 1514>>,
        <<1502, 1513, 1512, 1491, 32, 1492, 1489, 1497, 1496, 1495, 1493,
          1503, 32, 8211, 32, 1511, 1513, 1512, 32, 1500, 1513, 1497, 1512,
          1493, 1514, 32, 1493, 1514, 1497, 1506, 1493, 1491>>,
        <<1502, 1513, 1512, 1491, 32, 1492, 1489, 1497, 1496, 1495, 1493,
          1503, 32, 8211, 32, 1493, 1506, 1491, 1493, 1514, 32, 1512, 1508,
          1493, 1488, 1497, 1493, 1514, 32, 1493, 1491, 1512, 1490, 1493,
          1514>>,
        <<1502, 1513, 1512, 1491, 32, 1492, 1489, 1497, 1496, 1495, 1493,
          1503, 32, 8211, 32, 1494, 1499, 1493, 1497, 1493, 1514, 32, 1504,
          1500, 1493, 1493, 1514>> >>],
    [category |-> MACHALAT_MIKZOA,
     queries |-> <<
        <<1502, 1495, 1500, 1514, 32, 1502, 1511, 1510, 1493, 1506, 32,
          8211, 32, 1492, 1490, 1491, 1512, 1492, 32, 1493, 1512, 1513,
          1497, 1502, 1514, 32, 1502, 1495, 1500, 1493, 1514>>,
        <<1502, 1495, 1500, 1514, 32, 1502, 1511, 1510, 1493, 1506, 32,
          8211, 32, 1511, 1513, 1512, 32, 1505, 1497, 1489, 1514, 1497, 32,
          1500, 1514, 1504, 1488, 1497, 32, 1506, 1489, 1493, 1491, 1492>>,
        <<1502, 1495, 1500, 1514, 32, 1502, 1511, 1510, 1493, 1506, 32,
          8211, 32, 1514, 1511, 1493, 1508, 1514, 32, 1488, 1499, 1513,
          1512, 1492, 47, 1491, 1497, 1493, 1493, 1495>>,
        <<1502, 1495, 1500, 1514, 32, 1502, 1511, 1510, 1493, 1506, 32,
          8211, 32, 1502, 1505, 1502, 1499, 1497, 1501, 32, 1493, 1489,
          1491, 1497, 1511, 1493, 1514>> >>] >>

\* The queries tailor_queries inserts and the endings of the queries it
\* builds from the category.
RetirementQuery ==
    <<1504, 1499, 1493, 1514, 32, 1499, 1500, 1500, 1497, 1514, 32, 8211,
      32, 1494, 1499, 1488, 1493, 1514, 32, 1500, 1488, 1495, 1512, 32,
      1490, 1497, 1500, 32, 1508, 1512, 1497, 1513, 1492, 47, 1495, 1512,
      1497, 1490, 1497, 1501>>
MinimumAgeQuery ==
    <<1490, 1502, 1500, 1514, 32, 1505, 1497, 1506, 1493, 1491, 32, 8211,
      32, 1489, 1491, 1497, 1511, 1514, 32, 1506, 1502, 1497, 1491, 1492,
      32, 1489, 1514, 1504, 1488, 1497, 32, 1490, 1497, 1500, 32, 1502,
      1497, 1504, 1497, 1502, 1500, 1497>>
EmployerSuffix ==
    <<32, 8211, 32, 1514, 1497, 1506, 1493, 1491, 32, 1502, 1506, 1505,
      1497, 1511, 47, 1502, 1511, 1493, 1501, 32, 1506, 1489, 1493, 1491,
      1492>>
MobilitySuffix ==
    <<32, 8211, 32, 1514, 1497, 1506, 1493, 1491, 32, 1502, 1490, 1489,
      1500, 1514, 32, 1504, 1497, 1497, 1491, 1493, 1514, 32, 1495, 1502,
      1493, 1512, 1492>>

\* The index after the whitespace run that starts at index from ( \s* ).
SkipSpace(text, from) == RunEnd(text, from, WhitespaceChars) + 1

\* The number the decimal digits text[from..to] write.
RECURSIVE DigitsValue(_, _, _)
DigitsValue(text, from, to) ==
    IF to < from THEN 0
    ELSE 10 * DigitsValue(text, from, to - 1)
         + (text[to] - CHOOSE z \in DigitZeros :
                           z <= text[to] /\ text[to] <= z + 9)

\* Whether text[from..to] are digits ( \d{n} ).
AllDigits(text, from, to) ==
    to <= Len(text) /\ \A i \in from..to : text[i] \in DigitChars

\* (?:gil|ben|bat)\s*[:\-]?\s*(\d{2}) at index p: the index of the two
\* digits, 0 when the expression does not match at p.
AgeDigitsAt(text, p) ==
    LET AgeWords == {<<1490, 1497, 1500>>, <<1489, 1503>>, <<1489, 1514>>}
    IN
    IF \A w \in AgeWords : ~OccursAt(text, w, p) THEN 0
    ELSE LET w == CHOOSE x \in AgeWords : OccursAt(text, x, p)
             a == SkipSpace(text, p + Len(w))
             b == IF a <= Len(text) /\ text[a] \in {58, 45}
                  THEN a + 1 ELSE a
             c == SkipSpace(text, b)
         IN  IF AllDigits(text, c, c + 1) THEN c ELSE 0

\* (?:ta'arikh(?:\s*leda)?|leda)[^\d]{0,10}(\d{4}) at index p: the index of
\* the four digits, 0 when the expression does not match at p.
BirthWord == <<1514, 1488, 1512, 1497, 1498>>
BirthWordTail == <<1500, 1497, 1491, 1492>>

BirthPrefixEnds(text, p) ==
    (IF OccursAt(text, BirthWord, p)
     THEN {p + Len(BirthWord)}
          \cup (IF OccursAt(text, BirthWordTail,
                            SkipSpace(text, p + Len(BirthWord)))
                THEN {SkipSpace(text, p + Len(BirthWord)) + Len(BirthWordTail)}
                ELSE {})
     ELSE {})
    \cup (IF OccursAt(text, BirthWordTail, p)
          THEN {p + Len(BirthWordTail)} ELSE {})

YearDigitsAt(text, p) ==
    LET nondigits == {text[i] : i \in 1..Len(text)} \ DigitChars
        ok == {e \in BirthPrefixEnds(text, p) :
                  LET d == RunEnd(text, e, nondigits) + 1
                  IN  d - e <= 10 /\ AllDigits(text, d, d + 3)}
    IN  IF ok = {} THEN 0
        ELSE LET e == CHOOSE x \in ok : TRUE
             IN  RunEnd(text, e, nondigits) + 1

\* The first index of hits, 0 if there is none.
FirstMatch(text, hits) ==
    IF hits = {} THEN 0 ELSE CHOOSE p \in hits : \A q \in hits : p <= q

\* extract_age; NoAge stands for None.
NoAge == -1

extract_age(document_text) ==
    LET n == Len(document_text)
        m == FirstMatch(document_text,
                 {p \in 1..n : AgeDigitsAt(document_text, p) > 0})
        y == FirstMatch(document_text,
                 {p \in 1..n : YearDigitsAt(document_text, p) > 0})
    IN  IF m > 0
        THEN LET c == AgeDigitsAt(document_text, m)
             IN  DigitsValue(document_text, c, c + 1)
        ELSE IF y > 0
        THEN LET d == YearDigitsAt(document_text, y)
                 approx_age == 2025 - DigitsValue(document_text, d, d + 3)
             IN  IF 0 < approx_age /\ approx_age < 120 THEN approx_age
                 ELSE NoAge
        ELSE NoAge

\* first \s* second at index p: the last index of the match, 0 if none.
PhraseEnd(text, p, first, second) ==
    IF /\ OccursAt(text, first, p)
       /\ OccursAt(text, second, SkipSpace(text, p + Len(first)))
    THEN SkipSpace(text, p + Len(first)) + Len(second) - 1
    ELSE 0

\* \b at the gap before index i: a word character on exactly one side.
WordBoundary(text, i) ==
    (i > 1 /\ i - 1 <= Len(text) /\ text[i - 1] \in WordChars)
        # (i >= 1 /\ i <= Len(text) /\ text[i] \in WordChars)

\* \b(mishmeret|ma'asik|makom\s*avoda|tafkid|sakhar)\b is found in text.
MentionsWork(text) ==
    LET WorkWords ==
            {<<1502, 1513, 1502, 1512, 1514>>,
             <<1502, 1506, 1505, 1497, 1511>>,
             <<1514, 1508, 1511, 1497, 1491>>, <<1513, 1499, 1512>>}
    IN
    \E p \in 1..Len(text) :
        /\ WordBoundary(text, p)
        /\ \/ \E w \in WorkWords :
                  OccursAt(text, w, p) /\ WordBoundary(text, p + Len(w))
           \/ LET e == PhraseEnd(text, p, <<1502, 1511, 1493, 1501>>,
                                 <<1506, 1489, 1493, 1491, 1492>>)
              IN  e > 0 /\ WordBoundary(text, e + 1)

\* (koshi\s*bahalikha|kabayim|kise\s*galgalim|nayadut\s*mugbelet) is found
\* in text.
MentionsMobility(text) ==
    \E p \in 1..Len(text) :
        \/ PhraseEnd(text, p, <<1511, 1493, 1513, 1497>>,
                     <<1489, 1492, 1500, 1497, 1499, 1492>>) > 0
        \/ OccursAt(text, <<1511, 1489, 1497, 1497, 1501>>, p)
        \/ PhraseEnd(text, p, <<1499, 1497, 1505, 1488>>,
                     <<1490, 1500, 1490, 1500, 1497, 1501>>) > 0
        \/ PhraseEnd(text, p, <<1504, 1497, 1497, 1491, 1493, 1514>>,
                     <<1502, 1493, 1490, 1489, 1500, 1514>>) > 0

\* list.insert(i, x), i 0-based: x is put after seq[:i], so at the end when
\* i is beyond the end, and counted from the end when i is negative.
Insert(seq, i, x) ==
    LET before == Prefix(seq, i)
    IN  before \o <<x>> \o Slice(seq, Len(before) + 1, Len(seq))

\* tailor_queries: its four "if" blocks, one after the other.
tailor_queries(category, base_queries, document_text) ==
    LET age == extract_age(document_text)
        q1 == IF category = NAKHUT_KLALIT /\ age # NoAge /\ age >= 67
              THEN Insert(base_queries, 1, RetirementQuery)
              ELSE base_queries
        q2 == IF category = GAMALAT_SIUD /\ age # NoAge /\ age < 67
              THEN Insert(q1, 0, MinimumAgeQuery)
              ELSE q1
        q3 == IF category \in {TEUNAT_AVODA, MACHALAT_MIKZOA}
                 /\ MentionsWork(document_text)
              THEN Insert(q2, 0, category \o EmployerSuffix)
              ELSE q2
    IN  IF category \in {TAG_NECHET, NAYADUT}
           /\ MentionsMobility(document_text)
        THEN Insert(q3, 0, category \o MobilitySuffix)
        ELSE q3

\* build_final_question
build_final_question(category) ==
    LET QuestionHead ==
            <<1492, 1488, 1501, 32, 1492, 1502, 1496, 1493, 1508, 1500, 32, 1494,
              1499, 1488, 1497, 32, 1500>>
        QuestionTail ==
            <<32, 1489, 1492, 1514, 1488, 1501, 32, 1500, 1511, 1512, 1497, 1496,
              1512, 1497, 1493, 1504, 1497, 1501, 32, 1492, 1512, 1500, 1493, 1493,
              1504, 1496, 1497, 1497, 1501, 32, 1489, 1502, 1505, 1502, 1499, 1497,
              32, 1492, 1502, 1511, 1493, 1512, 63>>
    IN  QuestionHead \o category \o QuestionTail

\* The outcome ValueError of normalize_category and of build_plan.
Unknown == [raised |-> TRUE, category |-> None]

\* normalize_category: the exact lookup, then the first alias, in the order
\* of the table, that the key contains; ValueError when there is none.
normalize_category(raw) ==
    LET key == Strip(raw)
        exact == {k \in 1..Len(CATEGORY_ALIASES) :
                     CATEGORY_ALIASES[k].alias = key}
        soft == {k \in 1..Len(CATEGORY_ALIASES) :
                    Contains(key, CATEGORY_ALIASES[k].alias)}
    IN  IF exact # {}
        THEN [raised |-> FALSE,
              category |-> CATEGORY_ALIASES[CHOOSE k \in exact : TRUE].can]
        ELSE IF soft # {}
        THEN [raised |-> FALSE,
              category |->
                  CATEGORY_ALIASES[CHOOSE k \in soft :
                                       \A j \in soft : k <= j].can]
        ELSE Unknown

\* What build_plan did not return.
NoPlan == [raised |-> TRUE, criteria_queries |-> <<>>, question |-> <<>>]

\* PlannerInput(category=..., document_text=...): blank fields are refused,
\* the category is stripped.
PlannerInputAccepted(category, document_text) ==
    ~IsBlankStr(category) /\ ~IsBlankStr(document_text)

\* build_plan on an accepted PlannerInput.
build_plan(category, document_text) ==
    LET norm == normalize_category(Strip(category))
        at == {k \in 1..Len(CRITERIA_TEMPLATES) :
                  CRITERIA_TEMPLATES[k].category = norm.category}
        base_queries ==
            IF at = {} THEN <<>>
            ELSE CRITERIA_TEMPLATES[CHOOSE k \in at : TRUE].queries
    IN  IF norm.raised THEN NoPlan
        ELSE IF base_queries = <<>> THEN NoPlan
        ELSE [raised |-> FALSE,
              criteria_queries |->
                  tailor_queries(norm.category, base_queries, document_text),
              question |-> build_final_question(norm.category)]

\* The longest text put before and after an alias.
MaxAffixChars == 1

\* Category strings: every alias with a text of up to MaxAffixChars
\* characters (space, lamed) before and after it, the categories and the
\* fallback category of the router, a string that holds no alias ("akher"),
\* the empty and a blank string.
CategoryStrings ==
    {pre \o CATEGORY_ALIASES[k].alias \o post :
        k \in 1..Len(CATEGORY_ALIASES),
        pre \in SeqsOf({32, 1500}, 0, MaxAffixChars),
        post \in SeqsOf({32, 1500}, 0, MaxAffixChars)}
    \cup {ALLOWED_CATEGORIES[k] : k \in 1..Len(ALLOWED_CATEGORIES)}
    \cup {FALLBACK_CATEGORIES[1], <<1488, 1495, 1512>>, <<>>, <<32, 9>>}

\* Document texts: "ben 68", "bat: 62", "ta'arikh leda 1950", "ma'asik"
\* (employer), "kise galgalim" (wheelchair), "tekst", a blank text, and
\* "gil 68" written with Arabic-Indic digits.
PlannerTexts ==
    {<<1489, 1503, 32, 54, 56>>,
     <<1490, 1497, 1500, 32, 1638, 1640>>,
     <<1489, 1514, 58, 32, 54, 50>>,
     BirthWord \o <<32>> \o BirthWordTail \o <<32, 49, 57, 53, 48>>,
     <<1502, 1506, 1505, 1497, 1511>>,
     <<1499, 1497, 1505, 1488, 32, 1490, 1500, 1490, 1500, 1497, 1501>>,
     <<1496, 1511, 1505, 1496>>,
     <<32, 10>>}

InitPlanner ==
    /\ fn \in {[op |-> "normalize_category", raw |-> c, applied |-> FALSE,
                value |-> Unknown] : c \in CategoryStrings}
              \cup {[op |-> "build_plan", category |-> c,
                     document_text |-> t, applied |-> FALSE,
                     rejected |-> FALSE, value |-> NoPlan] :
                       c \in CategoryStrings, t \in PlannerTexts}
    /\ args = Args(<<>>, <<>>, 1)
    /\ pc = "idle"
    /\ q_idx = 0
    /\ d_idx = 0
    /\ candidates = <<>>
    /\ results = <<>>
    /\ emitted_for = <<>>
    /\ first_args = args
    /\ first_output = NoOutput
    /\ between = FALSE
    /\ RouterIdle

\* normalize_category(raw) is called.
ApplyNormalizeCategory ==
    /\ fn.op = "normalize_category"
    /\ ~fn.applied
    /\ fn' = [fn EXCEPT !.applied = TRUE,
                        !.value = normalize_category(fn.raw)]
    /\ UNCHANGED <<args, pc, q_idx, d_idx, candidates, results, emitted_for,
                   first_args, first_output, between>>
    /\ UNCHANGED router_vars

\* PlannerInput(category, document_text) is built and, when it is accepted,
\* build_plan is called on it.
ApplyBuildPlan ==
    /\ fn.op = "build_plan"
    /\ ~fn.applied
    /\ fn' = [fn EXCEPT
                 !.applied = TRUE,
                 !.rejected = ~PlannerInputAccepted(fn.category,
                                                    fn.document_text),
                 !.value = IF PlannerInputAccepted(fn.category,
                                                   fn.document_text)
                           THEN build_plan(fn.category, fn.document_text)
                           ELSE NoPlan]
    /\ UNCHANGED <<args, pc, q_idx, d_idx, candidates, results, emitted_for,
                   first_args, first_output, between>>
    /\ UNCHANGED router_vars

NextPlanner ==
    \/ ApplyNormalizeCategory
    \/ ApplyBuildPlan

SpecPlanner == InitPlanner /\ [][NextPlanner]_vars

(***************************************************************************)
(* What the properties speak of                                            *)
(***************************************************************************)

Queries == args.criteria_queries
Docs == args.criteria_documents

\* The records of results that were emitted for the i-th query, in order.
GroupOf(i) ==
    LET at == SelectSeq(Indices(Len(results)), LAMBDA k : emitted_for[k] = i)
    IN  [k \in 1..Len(at) |-> results[at[k]]]

\* The keywords retrieve derives from a query.
KeywordsOf(q) == keywords_from_query(q, DefaultMinLen)

\* The segments of a document: its paragraphs and its sentences.
SegmentsOf(d) ==
    LET paragraphs == split_to_paragraphs(d.content)
        sentences == split_to_sentences(d.content)
    IN  {paragraphs[k] : k \in 1..Len(paragraphs)}
        \cup {sentences[k] : k \in 1..Len(sentences)}

\* Document d yields a segment with score > 0 for query q.
HasHit(q, d) ==
    \E seg \in SegmentsOf(d) :
        match_score(normalize_hebrew(seg), KeywordsOf(q)) > 0

\* The indices of the documents that match q, in document order.
MatchingDocs(q) ==
    SelectSeq(Indices(Len(Docs)), LAMBDA k : HasHit(q, Docs[k]))

\* The score of the best segment of document d for query q.
BestScoreIn(q, d) ==
    LET scores == {match_score(normalize_hebrew(seg), KeywordsOf(q)) :
                       seg \in SegmentsOf(d)} \cup {0}
    IN  CHOOSE m \in scores : \A x \in scores : x <= m

Smaller(a, b) == IF a < b THEN a ELSE b

\* C1: retrieve emits the records of the queries in input-query order: no
\* record of a later query precedes a record of an earlier one, and once
\* the call has returned every query has a non-empty group.
C1_QueryOrder ==
    /\ Len(emitted_for) = Len(results)
    /\ \A i, j \in 1..Len(emitted_for) :
           i < j => emitted_for[i] <= emitted_for[j]
    /\ pc = "done" =>
           \A i \in 1..Len(Queries) : GroupOf(i) # <<>>

\* A returned call with two queries, the first of them with two records.
C1_Witness ==
    /\ pc = "done"
    /\ Len(Queries) = 2
    /\ Len(GroupOf(1)) = 2
    /\ Len(GroupOf(2)) >= 1

\* C2 as stated: the group of a matched query has exactly max_per_query
\* records and the group of an unmatched query exactly one.
C2_GroupLengthAsStated ==
    pc = "done" =>
        \A i \in 1..Len(Queries) :
            Len(GroupOf(i)) = IF MatchingDocs(Queries[i]) # <<>>
                              THEN args.max_per_query ELSE 1

\* C2 amended: the group of a matched query has min(max_per_query, number of
\* matching documents) records, the group of an unmatched query exactly
\* one; when every query matches in every document the output has
\* len(queries) * min(max_per_query, len(documents)) records.
C2_GroupLength ==
    pc = "done" =>
        /\ \A i \in 1..Len(Queries) :
               Len(GroupOf(i)) =
                   IF MatchingDocs(Queries[i]) # <<>>
                   THEN Smaller(args.max_per_query,
                                Len(MatchingDocs(Queries[i])))
                   ELSE 1
        /\ (\A i \in 1..Len(Queries) :
                Len(MatchingDocs(Queries[i])) = Len(Docs))
           => Len(results) =
                  Len(Queries) * Smaller(args.max_per_query, Len(Docs))

\* A matched query with fewer matching documents than max_per_query, next
\* to a query that every document matches.
C2_Witness ==
    /\ pc = "done"
    /\ args.max_per_query = 2
    /\ \E i \in 1..Len(Queries) :
           /\ Len(MatchingDocs(Queries[i])) = 1
           /\ Len(GroupOf(i)) = 1
           /\ GroupOf(i)[1].source_id # SentinelId

\* No document's normalized content holds a keyword of q.
NoKeywordAnywhere(q) ==
    \A d \in 1..Len(Docs) : \A k \in 1..Len(KeywordsOf(q)) :
        ~Contains(normalize_hebrew(Docs[d].content), KeywordsOf(q)[k])

\* C3: a query none of whose keywords occurs in any document's normalized
\* content (a query without keywords included) gets exactly one record:
\* source_id "N/A", the fixed text, section_ref None.
C3_Sentinel ==
    pc = "done" =>
        \A i \in 1..Len(Queries) :
            NoKeywordAnywhere(Queries[i]) =>
                GroupOf(i) = <<[source_id |-> SentinelId,
                                text |-> SentinelText,
                                section_ref |-> None]>>

\* Two documents, max_per_query 2, a query of stop-words only and a query
\* whose keywords occur nowhere.
C3_Witness ==
    /\ pc = "done"
    /\ Len(Docs) = 2
    /\ args.max_per_query = 2
    /\ \E i, j \in 1..Len(Queries) :
           /\ KeywordsOf(Queries[i]) = <<>>
           /\ KeywordsOf(Queries[j]) # <<>>
           /\ NoKeywordAnywhere(Queries[j])
           /\ GroupOf(i) = <<SentinelRecord>>
           /\ GroupOf(j) = <<SentinelRecord>>

\* C4 as stated: with max_per_query = 1 the record of a matched query comes
\* from a document whose best segment has the highest score of all
\* documents.
C4_BestOverall ==
    (pc = "done" /\ args.max_per_query = 1) =>
        \A i \in 1..Len(Queries) :
            MatchingDocs(Queries[i]) # <<>> =>
                \E d \in 1..Len(Docs) :
                    /\ Docs[d].id = GroupOf(i)[1].source_id
                    /\ \A e \in 1..Len(Docs) :
                           BestScoreIn(Queries[i], Docs[e])
                               <= BestScoreIn(Queries[i], Docs[d])

\* The record a matching document contributes to a query.
RecordFrom(q, d) ==
    [source_id |-> d.id,
     text |-> best_snippet_for_query_in_doc(q, d, max_snippet_chars).snippet,
     section_ref |->
         best_snippet_for_query_in_doc(q, d, max_snippet_chars).section_ref]

\* C5: the records of a matched query are those of the first max_per_query
\* matching documents, in document order, whatever the later documents
\* score.
C5_FirstMatchingDocs ==
    pc = "done" =>
        \A i \in 1..Len(Queries) :
            LET m == MatchingDocs(Queries[i])
            IN  m # <<>> =>
                    GroupOf(i) =
                        [k \in 1..Smaller(args.max_per_query, Len(m)) |->
                            RecordFrom(Queries[i], Docs[m[k]])]

\* The one record of a query comes from the first document although the
\* second one scores higher.
C5_Witness ==
    /\ pc = "done"
    /\ args.max_per_query = 1
    /\ Len(Docs) = 2
    /\ \E i \in 1..Len(Queries) :
           /\ BestScoreIn(Queries[i], Docs[1]) > 0
           /\ BestScoreIn(Queries[i], Docs[2])
                  > BestScoreIn(Queries[i], Docs[1])
           /\ GroupOf(i)[1].source_id = Docs[1].id
           /\ Docs[2].id # Docs[1].id

\* A string of whitespace only, the empty string included.
AllWhitespace(v) == \A i \in 1..Len(v) : IsSpace(v[i])

\* An input the specification says is rejected.
MustBeRejected(a) ==
    \/ a.criteria_queries = <<>>
    \/ \E i \in 1..Len(a.criteria_queries) :
           AllWhitespace(a.criteria_queries[i])
    \/ a.criteria_documents = <<>>
    \/ \E i \in 1..Len(a.criteria_documents) :
           \/ AllWhitespace(a.criteria_documents[i].id)
           \/ AllWhitespace(a.criteria_documents[i].content)

\* C7: an input with no query, a blank query, no document, or a document
\* with a blank id or content is rejected when it is built: retrieve never
\* starts on it and nothing is returned for it.
C7_RejectedEarly ==
    MustBeRejected(args) =>
        /\ pc \in {"construct", "rejected"}
        /\ results = <<>>
        /\ candidates = <<>>
        /\ q_idx = 0
        /\ ~first_output.returned

\* A rejected input whose only fault is a document with a blank id.
C7_Witness ==
    /\ pc = "rejected"
    /\ QueriesAccepted(Queries)
    /\ \E i \in 1..Len(Docs) : AllWhitespace(Docs[i].id)
    /\ \A i \in 1..Len(Docs) : ~AllWhitespace(Docs[i].content)

\* C8: a call with the input of the first call returns what the first call
\* returned, whatever calls were made in between.
C8_Deterministic ==
    (pc = "done" /\ args = first_args) =>
        /\ first_output.returned
        /\ results = first_output.sections

\* The first input called again after a call with another input, with
\* records from documents and a sentinel in the output.
C8_Witness ==
    /\ pc = "done"
    /\ args = first_args
    /\ between
    /\ \E i, j \in 1..Len(results) :
           /\ results[i].source_id = SentinelId
           /\ results[j].source_id # SentinelId

\* C6: a record whose text is longer than max_snippet_chars has a text of
\* exactly max_snippet_chars + 1 characters that ends with the ellipsis.
C6_Truncation ==
    \A k \in 1..Len(results) :
        Len(results[k].text) > max_snippet_chars =>
            /\ Len(results[k].text) = max_snippet_chars + 1
            /\ results[k].text[Len(results[k].text)] = Ellipsis[1]

\* Two records of truncated paragraphs: one cut at a letter, of
\* max_snippet_chars + 1 characters, and one cut at a space (the character
\* at position max_snippet_chars), which is shorter.
C6_Witness ==
    /\ pc = "done"
    /\ Len(results) = 2
    /\ Len(Docs[1].content) > max_snippet_chars
    /\ Docs[1].content[max_snippet_chars] # 32
    /\ Len(results[1].text) = max_snippet_chars + 1
    /\ results[1].text[max_snippet_chars + 1] = Ellipsis[1]
    /\ Len(Docs[2].content) > max_snippet_chars
    /\ Docs[2].content[max_snippet_chars] = 32
    /\ Len(results[2].text) = max_snippet_chars
    /\ results[2].text[max_snippet_chars] = Ellipsis[1]

\* The tokens of a query: the maximal runs of its normalized text between
\* separator characters.
TokensOf(query) ==
    LET qn == normalize_hebrew(query)
    IN  Runs(qn, {i \in 1..Len(qn) : IsTokenSep(qn[i])})

\* The index of the first token equal to t.
FirstTokenAt(tokens, t) ==
    CHOOSE i \in 1..Len(tokens) :
        tokens[i] = t /\ \A j \in 1..(i - 1) : tokens[j] # t

\* C9: the list keywords_from_query returns has no duplicates, no stop-word
\* and no token shorter than min_len, and its elements are tokens of the
\* normalized query in the order of their first occurrence.
C9_Keywords ==
    (fn.op = "keywords_from_query" /\ fn.applied) =>
        LET r == fn.value
            tokens == TokensOf(fn.query)
        IN  /\ \A i, j \in 1..Len(r) : i < j => r[i] # r[j]
            /\ \A i \in 1..Len(r) :
                   /\ r[i] \notin HE_STOPWORDS
                   /\ Len(r[i]) >= fn.min_len
                   /\ \E k \in 1..Len(tokens) : tokens[k] = r[i]
            /\ \A i, j \in 1..Len(r) :
                   i < j => FirstTokenAt(tokens, r[i])
                                < FirstTokenAt(tokens, r[j])

\* "gil gil bdika" with min_len 2 gives "gil", "bdika".
C9_Witness ==
    /\ fn.op = "keywords_from_query"
    /\ fn.applied
    /\ fn.query = KeywordExample
    /\ fn.min_len = 2
    /\ fn.value = <<<<1490, 1497, 1500>>, <<1489, 1491, 1497, 1511, 1492>>>>

\* The starts (1-based) of the section markers of a text.
MarkerStarts(content) ==
    {p \in 1..Len(content) : RefMatchEnd(content, p) > 0}

\* The marker of content that starts at p.
MarkerAt(content, p) == Slice(content, p, RefMatchEnd(content, p))

\* C10: when the paragraph chosen for a document holds no section marker,
\* the record's section_ref is the (first) marker that lies in the
\* WindowRadius characters before the paragraph, if there is one, and None
\* if no marker reaches into the window of WindowRadius characters before
\* and after the paragraph.
C10_CitationWindow ==
    pc = "done" =>
        \A i \in 1..Len(Queries) :
            LET m == MatchingDocs(Queries[i])
            IN  \A k \in 1..Len(GroupOf(i)) :
                    m # <<>> =>
                        LET content == Docs[m[k]].content
                            chosen == BestParagraph(
                                content, KeywordsOf(Queries[i])).seg
                            idx == IndexOf(content, chosen)
                            lo == IF idx > WindowRadius
                                  THEN idx - WindowRadius ELSE 0
                            hi == idx + Len(chosen) + WindowRadius
                            before ==
                                {p \in MarkerStarts(content) :
                                    /\ p > lo
                                    /\ RefMatchEnd(content, p) <= idx}
                            reaching ==
                                {p \in MarkerStarts(content) :
                                    /\ RefMatchEnd(content, p) > lo
                                    /\ p <= hi}
                            ref == GroupOf(i)[k].section_ref
                        IN  (chosen # None
                             /\ extract_section_ref(chosen) = None) =>
                                /\ before # {} =>
                                       /\ ref # None
                                       /\ ref = MarkerAt(content,
                                              CHOOSE p \in before :
                                                  \A x \in before : p <= x)
                                /\ reaching = {} => ref = None

\* Two records: the first with the marker that starts exactly WindowRadius
\* characters before its paragraph, the second with None although its
\* document holds a marker, further away.
C10_Witness ==
    /\ pc = "done"
    /\ Len(results) = 2
    /\ Docs[1] = MarkerBefore(WindowRadius)
    /\ results[1].section_ref = Marker
    /\ results[1].text = QueryAge
    /\ MarkerStarts(Docs[2].content) # {}
    /\ results[2].section_ref = None
    /\ results[2].text = QueryAge

\* Whether text was taken from content: it occurs in content, or it is a
\* piece of content cut short, with the ellipsis in place of the rest.
TakenFrom(text, content) ==
    \/ Contains(content, text)
    \/ /\ Len(text) > 1
       /\ text[Len(text)] = Ellipsis[1]
       /\ Contains(content, Slice(text, 1, Len(text) - 1))

\* C11: in every output of retrieve each record's source_id is the id of an
\* input document or "N/A" and its text is not empty; a record that is not
\* the sentinel carries the id of a document that its text was taken from
\* and that matches the record's query.
C11_SourceIds ==
    pc \in {"query", "docs", "done"} =>
        \A k \in 1..Len(results) :
            /\ results[k].text # <<>>
            /\ \/ results[k].source_id = SentinelId
               \/ \E d \in 1..Len(Docs) : results[k].source_id = Docs[d].id
            /\ results[k].source_id # SentinelId =>
                   \E d \in 1..Len(Docs) :
                       /\ results[k].source_id = Docs[d].id
                       /\ TakenFrom(results[k].text, Docs[d].content)
                       /\ HasHit(Queries[emitted_for[k]], Docs[d])

\* A returned output with a sentinel record and records from two documents,
\* the second of which is not the first document of the input.
C11_Witness ==
    /\ pc = "done"
    /\ Len(Docs) = 2
    /\ \E i, j, k \in 1..Len(results) :
           /\ results[i].source_id = SentinelId
           /\ results[j].source_id = Docs[1].id
           /\ results[k].source_id = Docs[2].id
           /\ Docs[1].id # Docs[2].id
           /\ ~TakenFrom(results[k].text, Docs[1].content)

\* The records retrieve emits for one query q: the loop over the documents,
\* then the sentinel or the first max_per_query candidates.
RECURSIVE CandidatesOf(_, _, _)
CandidatesOf(q, docs, n) ==
    IF n = 0 THEN <<>>
    ELSE WithCandidate(CandidatesOf(q, docs, n - 1), q, docs[n])

RecordsOfQuery(q, docs, mpq) ==
    IF CandidatesOf(q, docs, Len(docs)) = <<>> THEN <<SentinelRecord>>
    ELSE Selected(CandidatesOf(q, docs, Len(docs)), mpq)

\* retrieve on the query list qs.
RECURSIVE RetrieveOf(_, _, _)
RetrieveOf(qs, docs, mpq) ==
    IF qs = <<>> THEN <<>>
    ELSE RetrieveOf(SubSeq(qs, 1, Len(qs) - 1), docs, mpq)
             \o RecordsOfQuery(qs[Len(qs)], docs, mpq)

\* C12: what a call returns for the query list A ++ B is what a call on A
\* returns followed by what a call on B returns (A and B not empty), and
\* the group of each query is what a call on that query alone returns.
C12_NoStateBetweenQueries ==
    pc = "done" =>
        /\ \A k \in 1..(Len(Queries) - 1) :
               results =
                   RetrieveOf(SubSeq(Queries, 1, k), Docs, args.max_per_query)
                   \o RetrieveOf(SubSeq(Queries, k + 1, Len(Queries)), Docs,
                                 args.max_per_query)
        /\ \A i \in 1..Len(Queries) :
               GroupOf(i) = RetrieveOf(<<Queries[i]>>, Docs,
                                       args.max_per_query)

\* A returned call on two queries: the first matched in a document, the
\* second matched nowhere.
C12_Witness ==
    /\ pc = "done"
    /\ Len(Queries) = 2
    /\ GroupOf(1)[1].source_id # SentinelId
    /\ GroupOf(2) = <<SentinelRecord>>

\* The score of a segment for the keywords kws, as the scoring loops
\* compute it.
ScoreOf(seg, kws) == match_score(normalize_hebrew(seg), kws)

\* The highest score among the segments segs, 0 when there is none.
TopScore(segs, kws) ==
    LET scores == {ScoreOf(segs[k], kws) : k \in 1..Len(segs)} \cup {0}
    IN  CHOOSE m \in scores : \A x \in scores : x <= m

\* The index of the first segment with the highest score.
FirstTop(segs, kws) ==
    CHOOSE k \in 1..Len(segs) :
        /\ ScoreOf(segs[k], kws) = TopScore(segs, kws)
        /\ \A j \in 1..(k - 1) : ScoreOf(segs[j], kws) < TopScore(segs, kws)

\* C13: best_snippet_for_query_in_doc returns a snippet exactly when the
\* highest paragraph score is greater than 0, and then the segment it chose
\* is the first paragraph, in document order, with that highest score; it
\* returns one snippet at most.
C13_FirstBestParagraph ==
    (fn.op = "best_snippet_for_query_in_doc" /\ fn.applied) =>
        LET kws == KeywordsOf(fn.query)
            paragraphs == split_to_paragraphs(fn.doc.content)
            top == TopScore(paragraphs, kws)
        IN  /\ fn.value.found <=> top > 0
            /\ top > 0 =>
                   /\ fn.best_para = paragraphs[FirstTop(paragraphs, kws)]
                   /\ fn.value.snippet =
                          Strip(paragraphs[FirstTop(paragraphs, kws)])
            /\ top = 0 => fn.value = NotFound

\* Four paragraphs that score 1, 2, 1, 2: the second one is chosen, not the
\* fourth.
C13_Witness ==
    /\ fn.op = "best_snippet_for_query_in_doc"
    /\ fn.applied
    /\ fn.query = QueryGGLL
    /\ LET paragraphs == split_to_paragraphs(fn.doc.content)
       IN  /\ Len(paragraphs) = 4
           /\ ScoreOf(paragraphs[1], KeywordsOf(fn.query)) = 1
           /\ ScoreOf(paragraphs[2], KeywordsOf(fn.query)) = 2
           /\ ScoreOf(paragraphs[4], KeywordsOf(fn.query)) = 2
           /\ paragraphs[2] # paragraphs[4]
           /\ fn.value.found
           /\ fn.value.snippet = paragraphs[2]

\* C14 as stated: match_score returns the number of keywords of the list
\* that occur in the segment, between 0 and len(keywords), and 0 exactly
\* when no keyword occurs.
C14_MatchScoreAsStated ==
    (fn.op = "match_score" /\ fn.applied) =>
        /\ fn.value = Cardinality({k \in 1..Len(fn.keywords) :
                          Contains(fn.text_norm, fn.keywords[k])})
        /\ 0 <= fn.value /\ fn.value <= Len(fn.keywords)
        /\ fn.value = 0 <=>
               \A k \in 1..Len(fn.keywords) :
                   ~Contains(fn.text_norm, fn.keywords[k])

\* C14 amended: match_score returns the number of non-empty keywords of the
\* list that occur in the segment, each counted once however often it
\* occurs (an empty keyword never counts); the score is between 0 and
\* len(keywords), and 0 exactly when no non-empty keyword occurs.
C14_MatchScore ==
    (fn.op = "match_score" /\ fn.applied) =>
        LET hits == {k \in 1..Len(fn.keywords) :
                        /\ fn.keywords[k] # <<>>
                        /\ \E i \in 1..Len(fn.text_norm) :
                               OccursAt(fn.text_norm, fn.keywords[k], i)}
        IN  /\ fn.value = Cardinality(hits)
            /\ 0 <= fn.value /\ fn.value <= Len(fn.keywords)
            /\ fn.value = 0 <=> hits = {}

\* Two keywords, one of which occurs twice in the segment and the other not
\* at all: the score is 1.
C14_Witness ==
    /\ fn.op = "match_score"
    /\ fn.applied
    /\ Len(fn.keywords) = 2
    /\ fn.keywords[1] # <<>>
    /\ \E i, j \in 1..Len(fn.text_norm) :
           /\ i # j
           /\ OccursAt(fn.text_norm, fn.keywords[1], i)
           /\ OccursAt(fn.text_norm, fn.keywords[1], j)
    /\ fn.keywords[2] # <<>>
    /\ ~Contains(fn.text_norm, fn.keywords[2])
    /\ fn.value = 1

\* The positions of the line feeds of text that stand in a run of two or
\* more line feeds: the blank-line boundaries.
BlankLinePos(text) ==
    {i \in 1..Len(text) :
        /\ text[i] = 10
        /\ \/ i > 1 /\ text[i - 1] = 10
           \/ i < Len(text) /\ text[i + 1] = 10}

\* The non-empty blocks that blank lines separate, each trimmed, in order.
BlocksOf(text) == StripAll(Runs(text, BlankLinePos(text)))

\* C16 as stated: for a text (with line feeds as its line breaks) that
\* holds two or more non-empty blocks separated by blank lines,
\* split_to_paragraphs returns exactly those blocks, trimmed, in order; a
\* single line break inside a block does not split it.
C16_BlankLineBlocks ==
    (/\ fn.op = "split_to_paragraphs"
     /\ fn.applied
     /\ \A i \in 1..Len(fn.text) : fn.text[i] # 13
     /\ Len(BlocksOf(fn.text)) >= 2) =>
        fn.value = BlocksOf(fn.text)

\* C17 as stated: every unit split_to_sentences and split_to_paragraphs
\* return is a non-empty, trimmed string, for every text, the empty and the
\* whitespace-only text included; split_to_sentences returns the whole
\* (trimmed) text as its single unit when the text holds no split point.
C17_NonEmptyUnits ==
    (fn.op \in {"split_to_sentences", "split_to_paragraphs"}
     /\ fn.applied) =>
        /\ \A k \in 1..Len(fn.value) :
               /\ fn.value[k] # <<>>
               /\ Strip(fn.value[k]) = fn.value[k]
        /\ (/\ fn.op = "split_to_sentences"
            /\ \A i \in 1..Len(fn.text) : ~SentenceSepPos(fn.text, i)) =>
               fn.value = <<Strip(fn.text)>>

\* C19: for a document with a non-blank content, when every paragraph
\* scores 0 every sentence scores 0 as well; best_snippet_for_query_in_doc
\* never returns with best_para None and best_sent not None, and the
\* snippet it returns is a paragraph.
C19_SentenceRetryIsDead ==
    (fn.op = "best_snippet_for_query_in_doc" /\ fn.applied) =>
        LET kws == KeywordsOf(fn.query)
            paragraphs == split_to_paragraphs(fn.doc.content)
            sentences == split_to_sentences(fn.doc.content)
        IN  /\ (\A k \in 1..Len(paragraphs) : ScoreOf(paragraphs[k], kws) = 0)
               => \A k \in 1..Len(sentences) : ScoreOf(sentences[k], kws) = 0
            /\ ~(fn.best_para = None /\ fn.best_sent # None)
            /\ fn.value.found =>
                   /\ fn.best_para # None
                   /\ \E k \in 1..Len(paragraphs) :
                          fn.value.snippet = paragraphs[k]

\* The sentence retry ran and found nothing: a paragraph with a vowel point
\* between the letters of two sentences, none of which holds the keyword.
C19_Witness ==
    /\ fn.op = "best_snippet_for_query_in_doc"
    /\ fn.applied
    /\ fn.query = QueryGG
    /\ Len(split_to_paragraphs(fn.doc.content)) = 1
    /\ Len(split_to_sentences(fn.doc.content)) = 2
    /\ \E i \in 1..Len(fn.doc.content) : IsNiqqud(fn.doc.content[i])
    /\ Cardinality({i \in 1..Len(fn.doc.content) :
                       fn.doc.content[i] = 1490}) >= 2
    /\ fn.best_para = None
    /\ fn.best_sent = None
    /\ ~fn.value.found

\* C15 as stated: when the paragraph chosen for a document holds no section
\* marker, the record's section_ref is the first marker of the window of
\* WindowRadius characters before and after the place of that paragraph in
\* the document, and it is a marker of the document, whole as it is written
\* there: never one the window edge cut short.
C15_WholeMarker ==
    pc = "done" =>
        \A i \in 1..Len(Queries) :
            LET m == MatchingDocs(Queries[i])
            IN  \A k \in 1..Len(GroupOf(i)) :
                    m # <<>> =>
                        LET content == Docs[m[k]].content
                            chosen == BestParagraph(
                                content, KeywordsOf(Queries[i])).seg
                            idx == IndexOf(content, chosen)
                            lo == IF idx > WindowRadius
                                  THEN idx - WindowRadius ELSE 0
                            hi == idx + Len(chosen) + WindowRadius
                            inside ==
                                {p \in MarkerStarts(content) :
                                    /\ p > lo
                                    /\ RefMatchEnd(content, p) <= hi}
                            starting ==
                                {p \in MarkerStarts(content) :
                                    p > lo /\ p <= hi}
                            ref == GroupOf(i)[k].section_ref
                        IN  (chosen # None
                             /\ extract_section_ref(chosen) = None) =>
                                /\ ref # None =>
                                       \E p \in starting :
                                           ref = MarkerAt(content, p)
                                /\ inside # {} =>
                                       ref = MarkerAt(content,
                                                 CHOOSE p \in inside :
                                                     \A x \in inside : p <= x)

\* C18 as stated: every text retrieve emits has at most max_snippet_chars
\* characters, the ellipsis of a truncated text included.
C18_TextWithinMaximum ==
    \A k \in 1..Len(results) : Len(results[k].text) <= max_snippet_chars

\* C20 as stated: whatever the language-model call does, route returns,
\* and every name of the returned categories is an allowed category, occurs
\* once, and has a confidence of at least MIN_CONFIDENCE in the returned
\* scored list; the document_text returned is the one passed in.
C20_RouteCategories ==
    /\ llm # NoReply => router_pc \in {"scored", "returned"}
    /\ router_pc = "returned" =>
           /\ routed.returned
           /\ routed.document_text = payload
           /\ \A i \in 1..Len(routed.categories) :
                  /\ InSeq(routed.categories[i], ALLOWED_CATEGORIES)
                  /\ \A j \in 1..Len(routed.categories) :
                         routed.categories[j] = routed.categories[i] => j = i
                  /\ \E k \in 1..Len(routed.scored) :
                         /\ routed.scored[k].name = routed.categories[i]
                         /\ MIN_CONFIDENCE.kind = "number"
                         /\ routed.scored[k].confidence
                                >= MIN_CONFIDENCE.value

\* The aliases normalize_category knows.
AliasSet == {CATEGORY_ALIASES[k].alias : k \in 1..Len(CATEGORY_ALIASES)}

\* C21 as stated: normalize_category returns a category only for a string
\* that, trimmed, is one of the known aliases (and then the category of that
\* alias), and raises ValueError for every other string; build_plan returns
\* no queries for a category string outside the alias set.
C21_ClosedTagSet ==
    /\ (fn.op = "normalize_category" /\ fn.applied) =>
           /\ ~fn.value.raised <=> Strip(fn.raw) \in AliasSet
           /\ ~fn.value.raised =>
                  \E k \in 1..Len(CATEGORY_ALIASES) :
                      /\ CATEGORY_ALIASES[k].alias = Strip(fn.raw)
                      /\ CATEGORY_ALIASES[k].can = fn.value.category
    /\ (fn.op = "build_plan" /\ fn.applied
        /\ Strip(fn.category) \notin AliasSet) =>
           /\ fn.value.raised
           /\ fn.value.criteria_queries = <<>>

=============================================================================
